---- MODULE Spec2Model ----
(***************************************************************************)
(* Model of the grading harness of tests/harness: the criteria loader      *)
(* (criteria_loader.py) and the code evaluator (evaluator.py).             *)
(*                                                                         *)
(* Text is modelled character by character: a Python str is a TLA+ string, *)
(* and the str/re operations the code uses are operators over strings.     *)
(* Offsets are 0-based, as in Python.  Four characters cannot be written   *)
(* in a TLA+ string literal and are stood for by one ASCII character each: *)
(*    TICK  "~" for the backtick (a fence is three of them),               *)
(*    CHECK "$" for the check-mark emoji U+2705,                           *)
(*    CROSS "!" for the cross-mark emoji U+274C,                           *)
(*    SURROGATE "@" for the lone surrogate U+D800.                         *)
(* None of the four is a word character or whitespace, like the            *)
(* characters they stand for.  A score is an integer (every score the code *)
(* computes is a whole number of points).                                  *)
(***************************************************************************)
EXTENDS Integers, Sequences, FiniteSets, TLC

\* skill      the skill name given to load
\* doc        the file at the skill's criteria path: <<>> when there is none,
\*            else <<content>>
\* criteria   <<>> before load has returned, else <<the AcceptanceCriteria>>
\* raised     the message of the FileNotFoundError load raised, "" if none
\* evaluator  <<>> before construction, else <<the CodeEvaluator>>
\* results    the EvaluationResult of every evaluate call so far, in call order
\* loads      the AcceptanceCriteria of every load call so far, in call order
\* calls      the evaluate calls in progress, as records of the arguments, the
\*            stage reached and the result object as it stands
\* matched    the direct _pattern_matches calls so far, as records of the
\*            arguments and the value returned
VARIABLES skill, doc, criteria, raised, evaluator, results, loads, calls, matched

vars == <<skill, doc, criteria, raised, evaluator, results, loads, calls, matched>>

TICK == "~"
FENCE == "~~~"
CHECK == "$"
CROSS == "!"
SURROGATE == "@"

(***************************************************************************)
(* Python str operations.                                                  *)
(***************************************************************************)
Whitespace == {" ", "\n", "\t", "\r"}

LowerCase ==
    {"a", "b", "c", "d", "e", "f", "g", "h", "i", "j", "k", "l", "m",
     "n", "o", "p", "q", "r", "s", "t", "u", "v", "w", "x", "y", "z"}

UpperCase ==
    {"A", "B", "C", "D", "E", "F", "G", "H", "I", "J", "K", "L", "M",
     "N", "O", "P", "Q", "R", "S", "T", "U", "V", "W", "X", "Y", "Z"}

Digits == {"0", "1", "2", "3", "4", "5", "6", "7", "8", "9"}

\* The characters the regex class \w matches.
WordChars == LowerCase \cup UpperCase \cup Digits \cup {"_"}

\* s[i]
At(s, i) == SubSeq(s, i + 1, i + 1)

\* s[a:b] for 0 <= a and 0 <= b
Slice(s, a, b) ==
    LET e == IF b > Len(s) THEN Len(s) ELSE b
    IN  IF a >= e THEN "" ELSE SubSeq(s, a + 1, e)

\* s.startswith(sub, i)
HasAt(s, sub, i) ==
    /\ i + Len(sub) <= Len(s)
    /\ SubSeq(s, i + 1, i + Len(sub)) = sub

startswith(s, prefix) == HasAt(s, prefix, 0)

endswith(s, suffix) == Len(suffix) <= Len(s) /\ HasAt(s, suffix, Len(s) - Len(suffix))

\* sub in s
Contains(s, sub) == \E i \in 0..(Len(s) - Len(sub)) : HasAt(s, sub, i)

\* s.find(sub, start): the lowest offset >= start where sub occurs, or -1
find_from(s, sub, start) ==
    IF \E i \in start..(Len(s) - Len(sub)) : HasAt(s, sub, i)
    THEN CHOOSE i \in start..(Len(s) - Len(sub)) :
            /\ HasAt(s, sub, i)
            /\ \A j \in start..(i - 1) : ~HasAt(s, sub, j)
    ELSE -1

find(s, sub) == find_from(s, sub, 0)

\* s.count(sub) for a non-empty sub: occurrences that do not overlap,
\* scanning from the left
RECURSIVE count_from(_, _, _)
count_from(s, sub, start) ==
    LET i == find_from(s, sub, start)
    IN  IF i = -1 THEN 0 ELSE 1 + count_from(s, sub, i + Len(sub))

count(s, sub) == count_from(s, sub, 0)

IsBlank(s) == \A i \in 0..(Len(s) - 1) : At(s, i) \in Whitespace

\* s.strip()
strip(s) ==
    IF IsBlank(s) THEN ""
    ELSE LET a == CHOOSE i \in 0..(Len(s) - 1) :
                     /\ At(s, i) \notin Whitespace
                     /\ \A j \in 0..(i - 1) : At(s, j) \in Whitespace
             b == CHOOSE i \in 0..(Len(s) - 1) :
                     /\ At(s, i) \notin Whitespace
                     /\ \A j \in (i + 1)..(Len(s) - 1) : At(s, j) \in Whitespace
         IN  Slice(s, a, b + 1)

\* s.split("\n")
RECURSIVE split_lines(_)
split_lines(s) ==
    LET i == find(s, "\n")
    IN  IF i = -1 THEN <<s>>
        ELSE <<Slice(s, 0, i)>> \o split_lines(Slice(s, i + 1, Len(s)))

\* s.split("\n", 1)
split_first_line(s) ==
    LET i == find(s, "\n")
    IN  IF i = -1 THEN <<s>> ELSE <<Slice(s, 0, i), Slice(s, i + 1, Len(s))>>

LowerOf(c) ==
    CASE c = "A" -> "a" [] c = "B" -> "b" [] c = "C" -> "c" [] c = "D" -> "d"
      [] c = "E" -> "e" [] c = "F" -> "f" [] c = "G" -> "g" [] c = "H" -> "h"
      [] c = "I" -> "i" [] c = "J" -> "j" [] c = "K" -> "k" [] c = "L" -> "l"
      [] c = "M" -> "m" [] c = "N" -> "n" [] c = "O" -> "o" [] c = "P" -> "p"
      [] c = "Q" -> "q" [] c = "R" -> "r" [] c = "S" -> "s" [] c = "T" -> "t"
      [] c = "U" -> "u" [] c = "V" -> "v" [] c = "W" -> "w" [] c = "X" -> "x"
      [] c = "Y" -> "y" [] c = "Z" -> "z" [] OTHER -> c

\* s.lower(), halving s so that the recursion stays shallow
RECURSIVE lower(_)
lower(s) ==
    IF Len(s) = 0 THEN ""
    ELSE IF Len(s) = 1 THEN LowerOf(s)
    ELSE LET h == Len(s) \div 2
         IN  lower(Slice(s, 0, h)) \o lower(Slice(s, h, Len(s)))

\* what the character at offset i contributes to " ".join(s.split()): itself,
\* after one space when it starts a word that is not the first
WordPiece(s, i) ==
    IF At(s, i) \in Whitespace THEN ""
    ELSE (IF i > 0 /\ At(s, i - 1) \in Whitespace
             /\ \E j \in 0..(i - 1) : At(s, j) \notin Whitespace
          THEN " " ELSE "")
         \o At(s, i)

RECURSIVE join_words(_, _, _)
join_words(s, a, b) ==
    IF a >= b THEN ""
    ELSE IF b = a + 1 THEN WordPiece(s, a)
    ELSE LET h == (a + b) \div 2
         IN  join_words(s, a, h) \o join_words(s, h, b)

\* " ".join(s.split()): the whitespace-separated words of s, joined by one space
normalize(s) == join_words(s, 0, Len(s))

(***************************************************************************)
(* criteria_loader.py                                                      *)
(***************************************************************************)
WindowLen == 200
AnchorLen == 50

\* language on the name as written, not on skill_name.lower()
language_case_sensitive(skill_name) ==
    IF endswith(skill_name, "-py") THEN "python"
    ELSE IF endswith(skill_name, "-dotnet") THEN "csharp"
    ELSE IF endswith(skill_name, "-ts") THEN "typescript"
    ELSE IF endswith(skill_name, "-java") THEN "java"
    ELSE "python"

\* AcceptanceCriteria.language
language(skill_name) ==
    LET name == lower(skill_name)
    IN  IF endswith(name, "-py") THEN "python"
        ELSE IF endswith(name, "-dotnet") THEN "csharp"
        ELSE IF endswith(name, "-ts") THEN "typescript"
        ELSE IF endswith(name, "-java") THEN "java"
        ELSE "python"

\* where re.split(r'^## ', content, flags=re.MULTILINE) finds a separator
HeaderAt(content, i) ==
    /\ HasAt(content, "## ", i)
    /\ (i = 0 \/ At(content, i - 1) = "\n")

RECURSIVE split_sections_from(_, _)
split_sections_from(content, start) ==
    IF \E i \in start..(Len(content) - 3) : HeaderAt(content, i)
    THEN LET h == CHOOSE i \in start..(Len(content) - 3) :
                     /\ HeaderAt(content, i)
                     /\ \A j \in start..(i - 1) : ~HeaderAt(content, j)
         IN  <<Slice(content, start, h)>> \o split_sections_from(content, h + 3)
    ELSE <<Slice(content, start, Len(content))>>

\* re.split(r'^## ', content, flags=re.MULTILINE)
split_sections(content) == split_sections_from(content, 0)

\* lines[0].strip() of section.split('\n', 1)
section_title(section) == strip(split_first_line(section)[1])

\* lines[1] if len(lines) > 1 else ""
section_body(section) ==
    LET lines == split_first_line(section)
    IN  IF Len(lines) > 1 THEN lines[2] ELSE ""

\* the length of the longest run of characters of class that starts at offset j
Run(s, j, class) ==
    CHOOSE k \in 0..(IF j > Len(s) THEN 0 ELSE Len(s) - j) :
        /\ \A m \in 0..(k - 1) : At(s, j + m) \in class
        /\ (j + k >= Len(s) \/ At(s, j + k) \notin class)

WordRun(s, j) == Run(s, j, WordChars)

\* whether r'```(\w+)?\n(.*?)```' (re.DOTALL) matches at offset i of s
BlockAt(s, i) ==
    /\ HasAt(s, FENCE, i)
    /\ LET k == WordRun(s, i + 3)
       IN  /\ HasAt(s, "\n", i + 3 + k)
           /\ find_from(s, FENCE, i + 4 + k) # -1

\* the matches of re.findall(r'```(\w+)?\n(.*?)```', s, re.DOTALL) from offset
\* pos on, left to right: group 1, group 2, and the offset where group 2 starts
RECURSIVE code_blocks_from(_, _)
code_blocks_from(s, pos) ==
    IF \E i \in pos..(Len(s) - 3) : BlockAt(s, i)
    THEN LET i == CHOOSE i \in pos..(Len(s) - 3) :
                     /\ BlockAt(s, i)
                     /\ \A j \in pos..(i - 1) : ~BlockAt(s, j)
             k == WordRun(s, i + 3)
             c == i + 4 + k
             f == find_from(s, FENCE, c)
         IN  <<[lang |-> Slice(s, i + 3, i + 3 + k),
                code |-> Slice(s, c, f),
                start |-> c]>>
             \o code_blocks_from(s, f + 3)
    ELSE <<>>

code_blocks(section_content) == code_blocks_from(section_content, 0)

correct_markers == <<CHECK, "Correct", "DO:", "Good">>
incorrect_markers == <<CROSS, "Incorrect", "DON'T:", "Bad", "Anti-pattern">>

RECURSIVE sum_counts(_, _)
sum_counts(content, markers) ==
    IF markers = <<>> THEN 0
    ELSE count(content, Head(markers)) + sum_counts(content, Tail(markers))

\* AcceptanceCriteriaLoader._is_correct_section: "True", "False" or "None"
_is_correct_section(content) ==
    LET correct_count == sum_counts(content, correct_markers)
        incorrect_count == sum_counts(content, incorrect_markers)
    IN  IF correct_count > incorrect_count THEN "True"
        ELSE IF incorrect_count > correct_count THEN "False"
        ELSE "None"

\* section_default if section_default is not None else True
default_or_true(section_default) ==
    IF section_default = "None" THEN TRUE ELSE section_default = "True"

\* AcceptanceCriteriaLoader._determine_correctness
_determine_correctness(code, context, section_default) ==
    LET code_pos == IF Len(code) > AnchorLen
                    THEN find(context, Slice(code, 0, AnchorLen))
                    ELSE find(context, code)
        lo == IF code_pos - WindowLen > 0 THEN code_pos - WindowLen ELSE 0
        preceding == Slice(context, lo, code_pos)
    IN  IF code_pos = -1 THEN default_or_true(section_default)
        ELSE IF \/ Contains(preceding, CROSS)
                \/ Contains(preceding, "Incorrect")
                \/ Contains(preceding, "DON'T")
             THEN FALSE
        ELSE IF Contains(preceding, CHECK) \/ Contains(preceding, "Correct")
             THEN TRUE
        ELSE default_or_true(section_default)

CodePattern(code, lang, is_correct, section) ==
    [code |-> code, language |-> lang, description |-> "",
     is_correct |-> is_correct, section |-> section]

\* the patterns one section yields in AcceptanceCriteriaLoader._extract_code_patterns
section_patterns(section) ==
    LET section_content == section_body(section)
        is_correct_section == _is_correct_section(section_content)
        blocks == code_blocks(section_content)
    IN  [i \in 1..Len(blocks) |->
            CodePattern(strip(blocks[i].code),
                        IF blocks[i].lang = "" THEN "python" ELSE blocks[i].lang,
                        _determine_correctness(blocks[i].code, section_content,
                                               is_correct_section),
                        section_title(section))]

RECURSIVE patterns_of_sections(_)
patterns_of_sections(sections) ==
    IF sections = <<>> THEN <<>>
    ELSE (IF IsBlank(Head(sections)) THEN <<>> ELSE section_patterns(Head(sections)))
         \o patterns_of_sections(Tail(sections))

\* AcceptanceCriteriaLoader._extract_code_patterns, as the sequence it yields
_extract_code_patterns(content) == patterns_of_sections(split_sections(content))

IsCorrect(p) == p.is_correct
IsIncorrect(p) == ~p.is_correct

SkipTitles == <<"overview", "introduction", "quick reference">>

\* the skip test on the title as written, not on title.lower()
is_skipped_title_case_sensitive(title) ==
    \E k \in 1..Len(SkipTitles) : Contains(title, SkipTitles[k])

\* any(skip in title.lower() for skip in [...])
is_skipped_title(title) ==
    \E k \in 1..Len(SkipTitles) : Contains(lower(title), SkipTitles[k])

\* ' '.join(lines)
RECURSIVE join_with_space(_)
join_with_space(lines) ==
    IF lines = <<>> THEN ""
    ELSE IF Len(lines) = 1 THEN lines[1]
    ELSE lines[1] \o " " \o join_with_space(Tail(lines))

\* the loop of AcceptanceCriteriaLoader._extract_description
RECURSIVE description_lines(_, _)
description_lines(todo, lines) ==
    IF todo = <<>> THEN lines
    ELSE LET line == Head(todo)
         IN  IF startswith(line, "#") \/ startswith(line, FENCE) THEN lines
             ELSE IF ~IsBlank(line)
                  THEN description_lines(Tail(todo), Append(lines, strip(line)))
             ELSE IF lines # <<>> THEN lines
             ELSE description_lines(Tail(todo), lines)

\* AcceptanceCriteriaLoader._extract_description
_extract_description(content) ==
    join_with_space(description_lines(split_lines(content), <<>>))

\* s.split(',')
RECURSIVE split_commas(_)
split_commas(s) ==
    LET i == find(s, ",")
    IN  IF i = -1 THEN <<s>>
        ELSE <<Slice(s, 0, i)>> \o split_commas(Slice(s, i + 1, Len(s)))

NameChars == WordChars \cup {","} \cup Whitespace
ModuleChars == WordChars \cup {"."}

\* the match of r'from\s+([\w.]+)\s+import\s+([\w,\s]+)' at offset i of s:
\* <<>> when there is none, else <<[module, names, end]>>
ImportMatch(s, i) ==
    LET a == i + 4
        b == a + Run(s, a, Whitespace)
        c == b + Run(s, b, ModuleChars)
        d == c + Run(s, c, Whitespace)
        e == d + 6
        g == e + Run(s, e, Whitespace)
        n == Run(s, g, NameChars)
    IN  IF ~(HasAt(s, "from", i) /\ b > a /\ c > b /\ d > c
             /\ HasAt(s, "import", d) /\ g > e)
        THEN <<>>
        ELSE IF n > 0
             THEN <<[module |-> Slice(s, b, c), names |-> Slice(s, g, g + n),
                     end |-> g + n]>>
        \* the last \s+ gives back one character to the name group
        ELSE IF g - e > 1
             THEN <<[module |-> Slice(s, b, c), names |-> Slice(s, g - 1, g),
                     end |-> g]>>
        ELSE <<>>

\* "from {module} import {name}" for each name of one match
import_entries(module, names) ==
    [k \in 1..Len(names) |-> "from " \o module \o " import " \o strip(names[k])]

\* AcceptanceCriteriaLoader._extract_required_imports, scanning from offset pos
RECURSIVE required_imports_from(_, _)
required_imports_from(content, pos) ==
    IF \E i \in pos..(Len(content) - 4) : ImportMatch(content, i) # <<>>
    THEN LET i == CHOOSE i \in pos..(Len(content) - 4) :
                     /\ ImportMatch(content, i) # <<>>
                     /\ \A j \in pos..(i - 1) : ImportMatch(content, j) = <<>>
             m == ImportMatch(content, i)[1]
         IN  import_entries(m.module, split_commas(m.names))
             \o required_imports_from(content, m.end)
    ELSE <<>>

_extract_required_imports(content) == required_imports_from(content, 0)

\* forbidden imports read from the section body the way required imports are
_extract_forbidden_imports_from_body(content) == _extract_required_imports(content)

\* AcceptanceCriteriaLoader._extract_forbidden_imports
_extract_forbidden_imports(content) == <<>>

\* the rule of a section with its patterns extracted from the body alone, not
\* from the section under its "## " header
section_rule_from_body(section) ==
    LET body == section_body(section)
        patterns == _extract_code_patterns(body)
    IN  [name |-> section_title(section),
         description |-> _extract_description(body),
         correct_patterns |-> SelectSeq(patterns, IsCorrect),
         incorrect_patterns |-> SelectSeq(patterns, IsIncorrect),
         required_imports |-> _extract_required_imports(body),
         forbidden_imports |-> _extract_forbidden_imports(body),
         required_patterns |-> <<>>,
         forbidden_patterns |-> <<>>]

\* the ValidationRule built for one section
section_rule(section) ==
    LET body == section_body(section)
        patterns == _extract_code_patterns("## " \o section)
    IN  [name |-> section_title(section),
         description |-> _extract_description(body),
         correct_patterns |-> SelectSeq(patterns, IsCorrect),
         incorrect_patterns |-> SelectSeq(patterns, IsIncorrect),
         required_imports |-> _extract_required_imports(body),
         forbidden_imports |-> _extract_forbidden_imports(body),
         required_patterns |-> <<>>,
         forbidden_patterns |-> <<>>]

\* every rule is yielded, with or without patterns
rule_is_kept_always(rule) == TRUE

\* if rule.correct_patterns or rule.incorrect_patterns: yield rule
rule_is_kept(rule) == rule.correct_patterns # <<>> \/ rule.incorrect_patterns # <<>>

RECURSIVE rules_of_sections(_)
rules_of_sections(sections) ==
    IF sections = <<>> THEN <<>>
    ELSE LET section == Head(sections)
         IN  (IF IsBlank(section) THEN <<>>
              ELSE IF is_skipped_title(section_title(section)) THEN <<>>
              ELSE IF rule_is_kept(section_rule(section)) THEN <<section_rule(section)>>
              ELSE <<>>)
             \o rules_of_sections(Tail(sections))

\* AcceptanceCriteriaLoader._extract_rules, as the sequence it yields
_extract_rules(content) == rules_of_sections(split_sections(content))

\* _parse_criteria with flat lists shared between AcceptanceCriteria objects:
\* the patterns of a load are appended to those of the load before it
_parse_criteria_shared_lists(skill_name, path, content) ==
    LET patterns == _extract_code_patterns(content)
        earlier == IF loads = <<>>
                   THEN [correct_patterns |-> <<>>, incorrect_patterns |-> <<>>]
                   ELSE loads[Len(loads)]
    IN  [skill_name |-> skill_name,
         source_path |-> path,
         rules |-> _extract_rules(content),
         correct_patterns |-> earlier.correct_patterns \o SelectSeq(patterns, IsCorrect),
         incorrect_patterns |-> earlier.incorrect_patterns \o SelectSeq(patterns, IsIncorrect)]

\* AcceptanceCriteriaLoader._parse_criteria
_parse_criteria(skill_name, path, content) ==
    LET patterns == _extract_code_patterns(content)
    IN  [skill_name |-> skill_name,
         source_path |-> path,
         rules |-> _extract_rules(content),
         correct_patterns |-> SelectSeq(patterns, IsCorrect),
         incorrect_patterns |-> SelectSeq(patterns, IsIncorrect)]

SKILLS_DIR == ".github/skills"
CRITERIA_FILENAME == "references/acceptance-criteria.md"

\* the criteria file looked for in the skill directory itself
criteria_path_flat(skill_name) == SKILLS_DIR \o "/" \o skill_name \o "/acceptance-criteria.md"

\* self.skills_dir / skill_name / self.CRITERIA_FILENAME, relative to base_path
criteria_path(skill_name) == SKILLS_DIR \o "/" \o skill_name \o "/" \o CRITERIA_FILENAME

(***************************************************************************)
(* The re module, for the patterns CodeEvaluator._code_to_regex builds.    *)
(***************************************************************************)
\* The characters re.escape puts a backslash before (Python 3.7 and later),
\* among the characters of the model.
EscapedChars ==
    {"(", ")", "[", "]", "{", "}", "?", "*", "+", "-", "|", "^", "\\", ".",
     "&", "#", " ", "\t", "\n", "\r"}

\* re.escape(s)
RECURSIVE re_escape(_)
re_escape(s) ==
    IF Len(s) = 0 THEN ""
    ELSE IF Len(s) = 1 THEN (IF s \in EscapedChars THEN "\\" \o s ELSE s)
    ELSE LET h == Len(s) \div 2
         IN  re_escape(Slice(s, 0, h)) \o re_escape(Slice(s, h, Len(s)))

\* s.replace(old, new) for a non-empty old
RECURSIVE replace(_, _, _)
replace(s, old, new) ==
    LET i == find(s, old)
    IN  IF i = -1 THEN s
        ELSE Slice(s, 0, i) \o new \o replace(Slice(s, i + Len(old), Len(s)), old, new)

\* where r"\\ +" matches in s: a backslash, then one or more spaces
EscapedSpacesAt(s, i) == HasAt(s, "\\ ", i)

\* re.sub(r"\\ +", r"\\s+", s)
RECURSIVE sub_escaped_spaces(_)
sub_escaped_spaces(s) ==
    IF \E i \in 0..(Len(s) - 2) : EscapedSpacesAt(s, i)
    THEN LET i == CHOOSE i \in 0..(Len(s) - 2) :
                     /\ EscapedSpacesAt(s, i)
                     /\ \A j \in 0..(i - 1) : ~EscapedSpacesAt(s, j)
             n == Run(s, i + 1, {" "})
         IN  Slice(s, 0, i) \o "\\s+" \o sub_escaped_spaces(Slice(s, i + 1 + n, Len(s)))
    ELSE s

\* re.sub(r"\\n", r"\\s*", s): r"\\n" matches a backslash followed by the letter n
sub_backslash_n(s) == replace(s, "\\n", "\\s*")

\* the pattern text of CodeEvaluator._code_to_regex, before re.compile
regex_source(code) ==
    LET escaped == re_escape(strip(code))
        spaced == sub_backslash_n(sub_escaped_spaces(escaped))
        quoted == replace(spaced, "\\\"", "[\"\\']")
    IN  replace(quoted, "\\'", "[\"\\']")

\* An atom of a compiled pattern: the characters it accepts and how many of them
\* ("1": exactly one, "+": one or more, "*": zero or more).
Atom(chars, rep) == [chars |-> chars, rep |-> rep]

\* the characters of a class: those of src from offset i up to the closing "]" at
\* offset close; a backslash makes the next character literal
RECURSIVE class_chars(_, _, _)
class_chars(src, i, close) ==
    IF i >= close THEN {}
    ELSE IF At(src, i) = "\\" /\ i + 1 < close
         THEN {At(src, i + 1)} \cup class_chars(src, i + 2, close)
    ELSE {At(src, i)} \cup class_chars(src, i + 1, close)

\* the offset of the first unescaped "]" of src from offset j on, or -1
RECURSIVE class_end(_, _)
class_end(src, j) ==
    IF j >= Len(src) THEN -1
    ELSE IF At(src, j) = "\\" THEN class_end(src, j + 2)
    ELSE IF At(src, j) = "]" THEN j
    ELSE class_end(src, j + 1)

\* One step of re.compile's parser on src: st.i is the offset reached, st.atoms
\* the atoms read so far, st.unit whether the last atom may still take a
\* quantifier, st.ok FALSE once re.error is raised.  Of the escapes
\* backslash-letter only \s and \n are read: _code_to_regex produces no other.
ParseStep(src, st) ==
    IF ~st.ok \/ st.i >= Len(src) THEN st
    ELSE LET i == st.i
             c == At(src, i)
             Read(atom, next) ==
                [i |-> next, atoms |-> Append(st.atoms, atom), unit |-> TRUE, ok |-> TRUE]
             Fail == [st EXCEPT !.ok = FALSE]
         IN  IF c = "\\"
             THEN IF i + 1 >= Len(src) THEN Fail
                  ELSE IF At(src, i + 1) = "s" THEN Read(Atom(Whitespace, "1"), i + 2)
                  ELSE IF At(src, i + 1) = "n" THEN Read(Atom({"\n"}, "1"), i + 2)
                  ELSE IF At(src, i + 1) \in WordChars THEN Fail
                  ELSE Read(Atom({At(src, i + 1)}, "1"), i + 2)
             ELSE IF c = "+" \/ c = "*"
             THEN IF ~st.unit THEN Fail
                  ELSE [i |-> i + 1,
                        atoms |-> [st.atoms EXCEPT ![Len(st.atoms)].rep = c],
                        unit |-> FALSE, ok |-> TRUE]
             ELSE IF c = "["
             THEN LET close == IF HasAt(src, "]", i + 1)
                               THEN class_end(src, i + 2)
                               ELSE class_end(src, i + 1)
                  IN  IF close = -1 THEN Fail
                      ELSE Read(Atom(class_chars(src, i + 1, close), "1"), close + 1)
             ELSE Read(Atom({c}, "1"), i + 1)

\* eight steps at once, which keeps the recursion of ParseLoop shallow
ParseSteps(src, st) ==
    ParseStep(src, ParseStep(src, ParseStep(src, ParseStep(src,
    ParseStep(src, ParseStep(src, ParseStep(src, ParseStep(src, st))))))))

RECURSIVE ParseLoop(_, _)
ParseLoop(src, st) ==
    IF ~st.ok \/ st.i >= Len(src) THEN st ELSE ParseLoop(src, ParseSteps(src, st))

\* re.compile(src): <<atoms>>, or <<>> where re.compile raises re.error
re_compile(src) ==
    LET st == ParseLoop(src, [i |-> 0, atoms |-> <<>>, unit |-> FALSE, ok |-> TRUE])
    IN  IF st.ok THEN <<st.atoms>> ELSE <<>>

\* how many atoms from atoms[k] on are unquantified
PlainRun(atoms, k) ==
    CHOOSE r \in 0..(Len(atoms) - k + 1) :
        /\ \A m \in 0..(r - 1) : atoms[k + m].rep = "1"
        /\ (k + r > Len(atoms) \/ atoms[k + r].rep # "1")

\* whether atoms[k..] match text at offset pos
RECURSIVE match_from(_, _, _, _)
match_from(atoms, k, text, pos) ==
    IF k > Len(atoms) THEN TRUE
    ELSE IF atoms[k].rep = "1"
    THEN /\ pos < Len(text)
         /\ At(text, pos) \in atoms[k].chars
         /\ LET r == PlainRun(atoms, k)
            IN  /\ pos + r <= Len(text)
                /\ \A m \in 1..(r - 1) : At(text, pos + m) \in atoms[k + m].chars
                /\ match_from(atoms, k + r, text, pos + r)
    ELSE LET n == Run(text, pos, atoms[k].chars)
         IN  \E m \in (IF atoms[k].rep = "+" THEN 1 ELSE 0)..n :
                match_from(atoms, k + 1, text, pos + m)

\* regex.search(text) is not None
re_search(atoms, text) == \E pos \in 0..Len(text) : match_from(atoms, 1, text, pos)

(***************************************************************************)
(* The ast module.  Python's parser is not part of the repository: the     *)
(* model fixes what it answers on the statements the inputs are built      *)
(* from, one statement per line, without continuation lines.               *)
(***************************************************************************)
\* The lines (stripped) that ast.parse rejects with a SyntaxError.
UnparsableLines == {"def f(:", "x = = 1"}

\* the 1-based numbers of the lines of code that ast.parse rejects
BadLineNumbers(code) ==
    LET lines == split_lines(code)
    IN  {k \in 1..Len(lines) : strip(lines[k]) \in UnparsableLines}

\* ast.parse(code) raises UnicodeEncodeError: the source is encoded as UTF-8
\* before it is parsed, and a lone surrogate has no encoding
ast_encode_fails(code) == Contains(code, SURROGATE)

\* ast.parse(code) returns (no SyntaxError, no UnicodeEncodeError)
ast_parses(code) == ~ast_encode_fails(code) /\ BadLineNumbers(code) = {}

\* e.lineno of the SyntaxError
syntax_error_line(code) ==
    CHOOSE k \in BadLineNumbers(code) : \A m \in BadLineNumbers(code) : k <= m

\* alias.name of one name of an import statement: the name before " as "
alias_name(text) ==
    LET name == normalize(text)
        i == find(name, " ")
    IN  IF i = -1 THEN name ELSE Slice(name, 0, i)

\* The "from {node.module} import {alias.name}" strings of the ast.ImportFrom
\* node that one line of code is, if it is one with a module.
ImportFromLine(line) ==
    LET stmt == normalize(line)
        k == find(stmt, " import ")
        dotted == Slice(stmt, 5, k)
        module == Slice(dotted, Run(dotted, 0, {"."}), Len(dotted))
        names == split_commas(Slice(stmt, k + 8, Len(stmt)))
    IN  IF startswith(stmt, "from ") /\ k # -1 /\ module # ""
        THEN {"from " \o module \o " import " \o alias_name(names[n]) : n \in 1..Len(names)}
        ELSE {}

\* The "import {alias.name}" strings of the ast.Import node that one line is.
ImportLine(line) ==
    LET stmt == normalize(line)
        names == split_commas(Slice(stmt, 7, Len(stmt)))
    IN  IF startswith(stmt, "import ")
        THEN {"import " \o alias_name(names[n]) : n \in 1..Len(names)}
        ELSE {}

\* actual_imports of CodeEvaluator._check_imports: ImportFrom nodes only
ImportFromSet(code) ==
    LET lines == split_lines(code)
    IN  UNION {ImportFromLine(lines[k]) : k \in 1..Len(lines)}

\* actual_imports of CodeEvaluator._import_pattern_matches: ImportFrom and Import
ImportSet(code) ==
    LET lines == split_lines(code)
    IN  UNION {ImportFromLine(lines[k]) \cup ImportLine(lines[k]) : k \in 1..Len(lines)}

(***************************************************************************)
(* evaluator.py                                                            *)
(***************************************************************************)
SignificantLen == 15
SnippetLen == 100
NoLine == 0

\* Finding(...); line is NoLine for None, column is left out (only a syntax
\* error sets it, from the parser's exception)
Finding(severity, rule, message, line, code_snippet, suggestion) ==
    [severity |-> severity, rule |-> rule, message |-> message, line |-> line,
     code_snippet |-> code_snippet, suggestion |-> suggestion]

\* EvaluationResult with findings a list shared between instances (a mutable
\* default): a new result starts with the findings of the previous one
EvaluationResult_shared_findings(skill_name, scenario, generated_code) ==
    [skill_name |-> skill_name, scenario |-> scenario,
     generated_code |-> generated_code,
     findings |-> IF results = <<>> THEN <<>> ELSE results[Len(results)].findings,
     matched_correct |-> <<>>, matched_incorrect |-> <<>>, score |-> 0]

\* EvaluationResult(skill_name=..., scenario=..., generated_code=...)
EvaluationResult(skill_name, scenario, generated_code) ==
    [skill_name |-> skill_name, scenario |-> scenario,
     generated_code |-> generated_code, findings |-> <<>>,
     matched_correct |-> <<>>, matched_incorrect |-> <<>>, score |-> 0]

IsError(f) == f.severity = "ERROR"
IsWarning(f) == f.severity = "WARNING"

\* EvaluationResult.passed
passed(result) == \A k \in 1..Len(result.findings) : ~IsError(result.findings[k])

\* EvaluationResult.error_count
error_count(result) == Len(SelectSeq(result.findings, IsError))

\* EvaluationResult.warning_count
warning_count(result) == Len(SelectSeq(result.findings, IsWarning))

RECURSIVE concat_all(_)
concat_all(seqs) ==
    IF seqs = <<>> THEN <<>> ELSE Head(seqs) \o concat_all(Tail(seqs))

\* the (section, regex) pairs of the patterns whose regex compiles
compiled_patterns(patterns) ==
    LET Compiles(p) == re_compile(regex_source(p.code)) # <<>>
        kept == SelectSeq(patterns, Compiles)
    IN  [k \in 1..Len(kept) |->
            [section |-> kept[k].section,
             regex |-> re_compile(regex_source(kept[k].code))[1]]]

\* CodeEvaluator.__init__ with CodeEvaluator._compile_patterns
CodeEvaluator(crit) ==
    [criteria |-> crit,
     _correct_regexes |-> compiled_patterns(crit.correct_patterns),
     _incorrect_regexes |-> compiled_patterns(crit.incorrect_patterns)]

\* self.criteria.language.lower() != "python"
not_python(self) == lower(language(self.criteria.skill_name)) # "python"

\* the exception that leaves CodeEvaluator.evaluate, "" if none: _check_syntax
\* catches SyntaxError only
evaluate_raises(self, code) ==
    IF ~not_python(self) /\ ast_encode_fails(code) THEN "UnicodeEncodeError" ELSE ""

\* the value CodeEvaluator._check_syntax returns
syntax_ok(self, code) == not_python(self) \/ ast_parses(code)

\* CodeEvaluator._check_syntax: the result it leaves
_check_syntax(self, code, result) ==
    IF syntax_ok(self, code) THEN result
    ELSE [result EXCEPT !.findings =
            Append(@, Finding("ERROR", "syntax", "Syntax error: invalid syntax",
                              syntax_error_line(code), "", ""))]

\* the lines of a pattern that CodeEvaluator._check_imports compares
pattern_import_lines(pattern_code) ==
    LET lines == split_lines(pattern_code)
        stripped == [k \in 1..Len(lines) |-> strip(lines[k])]
        IsImport(line) ==
            /\ ~startswith(line, "#")
            /\ line # ""
            /\ (startswith(line, "from ") \/ startswith(line, "import "))
    IN  SelectSeq(stripped, IsImport)

\* the findings CodeEvaluator._check_imports appends for one incorrect pattern
import_findings(code, pattern) ==
    IF ~Contains(lower(pattern.code), "import") THEN <<>>
    ELSE LET Hit(line) == normalize(line) \in ImportFromSet(code)
             hits == SelectSeq(pattern_import_lines(pattern.code), Hit)
         IN  [k \in 1..Len(hits) |->
                Finding("ERROR", "imports", "Incorrect import: " \o hits[k], NoLine, "",
                        "Check acceptance criteria section: " \o pattern.section)]

\* CodeEvaluator._check_imports
_check_imports(self, code, result) ==
    IF not_python(self) \/ ~ast_parses(code) THEN result
    ELSE LET pats == self.criteria.incorrect_patterns
         IN  [result EXCEPT !.findings =
                @ \o concat_all([k \in 1..Len(pats) |-> import_findings(code, pats[k])])]

\* the flat scan recording a section once, however many of its patterns are found
_check_incorrect_patterns_distinct_sections(self, code, result) ==
    LET Found(r) == re_search(r.regex, code)
        hits == SelectSeq(self._incorrect_regexes, Found)
        First(k) == \A j \in 1..(k - 1) : hits[j].section # hits[k].section
        firsts == SelectSeq([k \in 1..Len(hits) |-> [section |-> hits[k].section,
                                                     first |-> First(k)]],
                            LAMBDA h : h.first)
    IN  [result EXCEPT
            !.matched_incorrect = @ \o [k \in 1..Len(firsts) |-> firsts[k].section],
            !.findings = @ \o [k \in 1..Len(firsts) |->
                Finding("ERROR", "pattern:" \o firsts[k].section,
                        "Incorrect pattern found from section: " \o firsts[k].section,
                        NoLine, "", "Review acceptance criteria for correct usage")]]

\* CodeEvaluator._check_incorrect_patterns
_check_incorrect_patterns(self, code, result) ==
    LET Found(r) == re_search(r.regex, code)
        hits == SelectSeq(self._incorrect_regexes, Found)
    IN  [result EXCEPT
            !.matched_incorrect = @ \o [k \in 1..Len(hits) |-> hits[k].section],
            !.findings = @ \o [k \in 1..Len(hits) |->
                Finding("ERROR", "pattern:" \o hits[k].section,
                        "Incorrect pattern found from section: " \o hits[k].section,
                        NoLine, "", "Review acceptance criteria for correct usage")]]

\* CodeEvaluator._check_correct_patterns
_check_correct_patterns(self, code, result) ==
    LET Found(r) == re_search(r.regex, code)
        hits == SelectSeq(self._correct_regexes, Found)
    IN  [result EXCEPT
            !.matched_correct = @ \o [k \in 1..Len(hits) |-> hits[k].section]]

\* code_lines_normalized of the two multi-line matchers
code_lines_normalized(code) ==
    LET lines == split_lines(code)
        Kept(line) == ~IsBlank(line) /\ ~startswith(strip(line), "#")
        kept == SelectSeq(lines, Kept)
    IN  [k \in 1..Len(kept) |-> normalize(kept[k])]

InSeq(x, seq) == \E k \in 1..Len(seq) : seq[k] = x

\* significant_lines = [l for l in pattern_lines if len(l) >= 15]
significant_lines(pattern_lines) ==
    LET Long(l) == Len(l) >= SignificantLen
    IN  SelectSeq(pattern_lines, Long)

\* the verdict both matchers draw from matched_count
quorum(matched_count, pattern_lines) ==
    IF Len(significant_lines(pattern_lines)) <= 2
    THEN matched_count >= 1 /\ matched_count = Len(significant_lines(pattern_lines))
    ELSE matched_count >= 2

\* CodeEvaluator._multi_line_pattern_matches_exact
_multi_line_pattern_matches_exact(code, pattern_lines) ==
    IF pattern_lines = <<>> THEN FALSE
    ELSE LET code_lines == code_lines_normalized(code)
             Matched(pattern_line) ==
                /\ Len(normalize(pattern_line)) >= SignificantLen
                /\ InSeq(normalize(pattern_line), code_lines)
         IN  quorum(Len(SelectSeq(pattern_lines, Matched)), pattern_lines)

\* the flexible matcher with the per-line test of the exact one
_multi_line_pattern_matches_flexible_by_equality(code, pattern_lines) ==
    _multi_line_pattern_matches_exact(code, pattern_lines)

\* CodeEvaluator._multi_line_pattern_matches_flexible
_multi_line_pattern_matches_flexible(code, pattern_lines) ==
    IF pattern_lines = <<>> THEN FALSE
    ELSE LET code_lines == code_lines_normalized(code)
             Matched(pattern_line) ==
                /\ Len(normalize(pattern_line)) >= SignificantLen
                /\ \E k \in 1..Len(code_lines) :
                      \/ Contains(code_lines[k], normalize(pattern_line))
                      \/ Contains(normalize(pattern_line), code_lines[k])
         IN  quorum(Len(SelectSeq(pattern_lines, Matched)), pattern_lines)

\* CodeEvaluator._import_pattern_matches
_import_pattern_matches(self, code, import_lines) ==
    IF not_python(self) \/ ~ast_parses(code) THEN FALSE
    ELSE \E k \in 1..Len(import_lines) :
            /\ (startswith(import_lines[k], "from ") \/ startswith(import_lines[k], "import "))
            /\ normalize(import_lines[k]) \in ImportSet(code)

\* code_lines of CodeEvaluator._pattern_matches: the pattern without its comment lines
pattern_code_lines(pattern) ==
    LET lines == split_lines(strip(pattern.code))
        Kept(line) == ~IsBlank(line) /\ ~startswith(strip(line), "#")
        kept == SelectSeq(lines, Kept)
    IN  [k \in 1..Len(kept) |-> strip(kept[k])]

\* _pattern_matches without the import branch: every anti-pattern goes to the
\* line matchers
_pattern_matches_lines_only(self, code, pattern, is_incorrect) ==
    LET code_lines == pattern_code_lines(pattern)
    IN  IF code_lines = <<>> THEN FALSE
        ELSE IF is_incorrect THEN _multi_line_pattern_matches_exact(code, code_lines)
        ELSE _multi_line_pattern_matches_flexible(code, code_lines)

\* CodeEvaluator._pattern_matches
_pattern_matches(self, code, pattern, is_incorrect) ==
    LET code_lines == pattern_code_lines(pattern)
    IN  IF code_lines = <<>> THEN FALSE
        ELSE IF startswith(code_lines[1], "from ") \/ startswith(code_lines[1], "import ")
             THEN _import_pattern_matches(self, code, code_lines)
        ELSE IF is_incorrect THEN _multi_line_pattern_matches_exact(code, code_lines)
        ELSE _multi_line_pattern_matches_flexible(code, code_lines)

\* _check_rule without its scan of the rule's incorrect patterns
_check_rule_required_only(self, code, rule, result) ==
    LET Missing(req_pattern) == ~Contains(code, req_pattern)
        missing == SelectSeq(rule.required_patterns, Missing)
    IN  [result EXCEPT !.findings =
            @ \o [k \in 1..Len(missing) |->
                    Finding("WARNING", rule.name,
                            "Missing recommended pattern: " \o missing[k], NoLine, "", "")]]

\* _check_rule putting its findings in front of the findings made so far
_check_rule_prepends(self, code, rule, result) ==
    LET Hit(pattern) == _pattern_matches(self, code, pattern, TRUE)
        hits == SelectSeq(rule.incorrect_patterns, Hit)
        Missing(req_pattern) == ~Contains(code, req_pattern)
        missing == SelectSeq(rule.required_patterns, Missing)
    IN  [result EXCEPT !.findings =
            [k \in 1..Len(hits) |->
                    Finding("ERROR", rule.name, "Incorrect usage in " \o rule.name, NoLine,
                            Slice(hits[k].code, 0, SnippetLen), "")]
              \o [k \in 1..Len(missing) |->
                    Finding("WARNING", rule.name,
                            "Missing recommended pattern: " \o missing[k], NoLine, "", "")]
              \o @]

\* CodeEvaluator._check_rule
_check_rule(self, code, rule, result) ==
    LET Hit(pattern) == _pattern_matches(self, code, pattern, TRUE)
        hits == SelectSeq(rule.incorrect_patterns, Hit)
        Missing(req_pattern) == ~Contains(code, req_pattern)
        missing == SelectSeq(rule.required_patterns, Missing)
    IN  [result EXCEPT !.findings =
            @ \o [k \in 1..Len(hits) |->
                    Finding("ERROR", rule.name, "Incorrect usage in " \o rule.name, NoLine,
                            Slice(hits[k].code, 0, SnippetLen), "")]
              \o [k \in 1..Len(missing) |->
                    Finding("WARNING", rule.name,
                            "Missing recommended pattern: " \o missing[k], NoLine, "", "")]]

\* for rule in self.criteria.rules: self._check_rule(code, rule, result)
RECURSIVE check_rules(_, _, _, _)
check_rules(self, code, rules, result) ==
    IF rules = <<>> THEN result
    ELSE check_rules(self, code, Tail(rules), _check_rule(self, code, Head(rules), result))

ScoreNeutral == 50
ScoreBase == 100
ErrorCost == 20
WarningCost == 5
CorrectBonus == 5
IncorrectCost == 15

\* the score returned as computed, not clamped
clamp_missing(score) == score

\* max(0.0, min(100.0, score))
clamp(score) == IF score < 0 THEN 0 ELSE IF score > ScoreBase THEN ScoreBase ELSE score

\* _calculate_score without the neutral case
_calculate_score_no_neutral(result) ==
    clamp(ScoreBase
          - error_count(result) * ErrorCost
          - warning_count(result) * WarningCost
          + Len(result.matched_correct) * CorrectBonus
          - Len(result.matched_incorrect) * IncorrectCost)

\* CodeEvaluator._calculate_score
_calculate_score(result) ==
    IF result.findings = <<>> /\ result.matched_correct = <<>> THEN ScoreNeutral
    ELSE clamp(ScoreBase
               - error_count(result) * ErrorCost
               - warning_count(result) * WarningCost
               + Len(result.matched_correct) * CorrectBonus
               - Len(result.matched_incorrect) * IncorrectCost)

\* evaluate without the early return: a syntax error is one more finding
evaluate_no_early_return(self, code, scenario) ==
    LET result == EvaluationResult(self.criteria.skill_name, scenario, code)
        checked ==
            check_rules(self, code, self.criteria.rules,
                _check_correct_patterns(self, code,
                    _check_incorrect_patterns(self, code,
                        _check_imports(self, code,
                            _check_syntax(self, code, result)))))
    IN  [checked EXCEPT !.score = IF syntax_ok(self, code)
                                  THEN _calculate_score(checked) ELSE 0]

\* CodeEvaluator.evaluate
evaluate(self, code, scenario) ==
    LET result == EvaluationResult(self.criteria.skill_name, scenario, code)
    IN  IF ~syntax_ok(self, code)
        THEN [_check_syntax(self, code, result) EXCEPT !.score = 0]
        ELSE LET checked ==
                    check_rules(self, code, self.criteria.rules,
                        _check_correct_patterns(self, code,
                            _check_incorrect_patterns(self, code,
                                _check_imports(self, code,
                                    _check_syntax(self, code, result)))))
             IN  [checked EXCEPT !.score = _calculate_score(checked)]

(***************************************************************************)
(* Inputs.                                                                 *)
(***************************************************************************)
\* How many evaluate calls a behaviour makes, and how many code blocks the
\* first section of a loader document has, at most.
MaxCalls == 3
MaxBlocks == 2

LineGood == "client = Client(credential=DefaultCredential())"
LineBad == "client = Client(key=\"hardcoded\")"
LineOldImport == "from old.sdk import Client"
LineSyntaxError == "def f(:"

\* a fenced python block
Block(code) == FENCE \o "python\n" \o code \o "\n" \o FENCE \o "\n"

\* The scenario document: one section, a marked correct block, then a marked
\* incorrect block.
DocAuthentication ==
    "## Authentication\n\n### " \o CHECK \o " Correct\n" \o Block(LineGood)
    \o "\n### " \o CROSS \o " Incorrect\n" \o Block(LineBad)

\* Two anti-patterns, one of them an import.
DocClientSetup ==
    "## Client Setup\n\n### " \o CROSS \o " Incorrect\n" \o Block(LineOldImport)
    \o "\n### " \o CROSS \o " Incorrect\n" \o Block(LineBad)

EvalDocs == {DocAuthentication, DocClientSetup, ""}

Skills == {"auth-py", "auth-ts"}

CodeBoth == LineGood \o "\n" \o LineBad

\* the (code, scenario) arguments of the evaluate calls
EvalInputs ==
    {<<"", "">>, <<LineGood, "">>, <<LineBad, "">>, <<CodeBoth, "">>,
     <<CodeBoth, "manual-test">>,
     <<LineBad \o "\n" \o LineSyntaxError, "">>,
     <<LineOldImport \o "\n" \o LineBad, "">>}

\* required_patterns a caller may give a rule (the loader gives none)
RequiredPatterns == <<"DefaultCredential">>

(***************************************************************************)
(* The harness as a state machine: load, construct, evaluate.              *)
(***************************************************************************)
Init ==
    /\ skill \in Skills
    /\ doc \in {<<>>} \cup {<<d>> : d \in EvalDocs}
    /\ criteria = <<>>
    /\ raised = ""
    /\ evaluator = <<>>
    /\ results = <<>>
    /\ loads = <<>>
    /\ calls = <<>>
    /\ matched = <<>>

\* AcceptanceCriteriaLoader.load(skill)
Load ==
    /\ criteria = <<>>
    /\ raised = ""
    /\ IF doc = <<>>
       THEN /\ raised' = "Acceptance criteria not found: " \o criteria_path(skill)
            /\ UNCHANGED <<criteria, loads>>
       ELSE /\ criteria' = <<_parse_criteria(skill, criteria_path(skill), doc[1])>>
            /\ loads' = Append(loads, criteria'[1])
            /\ UNCHANGED raised
    /\ UNCHANGED <<skill, doc, evaluator, results, calls, matched>>

\* The caller gives the first rule required_patterns before it builds the
\* evaluator.
Extend ==
    /\ criteria # <<>>
    /\ evaluator = <<>>
    /\ criteria[1].rules # <<>>
    /\ criteria[1].rules[1].required_patterns = <<>>
    /\ criteria' = <<[criteria[1] EXCEPT !.rules[1].required_patterns = RequiredPatterns]>>
    /\ UNCHANGED <<skill, doc, raised, evaluator, results, loads, calls, matched>>

\* CodeEvaluator(criteria)
Construct ==
    /\ criteria # <<>>
    /\ evaluator = <<>>
    /\ evaluator' = <<CodeEvaluator(criteria[1])>>
    /\ UNCHANGED <<skill, doc, criteria, raised, results, loads, calls, matched>>

\* evaluator.evaluate(code, scenario)
Evaluate(code, scenario) ==
    /\ evaluator # <<>>
    /\ Len(results) < MaxCalls
    /\ IF evaluate_raises(evaluator[1], code) # ""
       THEN /\ raised' = evaluate_raises(evaluator[1], code)
            /\ UNCHANGED results
       ELSE /\ results' = Append(results, evaluate(evaluator[1], code, scenario))
            /\ UNCHANGED raised
    /\ UNCHANGED <<skill, doc, criteria, evaluator, loads, calls, matched>>

Next ==
    \/ Load
    \/ Extend
    \/ Construct
    \/ \E input \in EvalInputs : Evaluate(input[1], input[2])

Spec == Init /\ [][Next]_vars

(***************************************************************************)
(* The loader on its own: documents put together from a preamble, a titled *)
(* section of up to MaxBlocks marked blocks, and a closing section.        *)
(***************************************************************************)
LineSetup == "setup()"

\* prose without markers, longer than the window _determine_correctness reads
Prose == "Use the client as the example below shows it. "
LongProse == Prose \o Prose \o Prose \o Prose \o Prose \o "\n"

Preambles == {"", "# Acceptance Criteria\n\nShared setup.\n" \o Block(LineSetup)}

Titles == {"Authentication", "API Overview"}

\* a marker line (or none), prose (or none) and a block
Items ==
    {"### " \o CHECK \o " Correct\n" \o Block(LineGood),
     "### " \o CROSS \o " Incorrect\n" \o Block(LineBad),
     "### " \o CROSS \o " Incorrect\n" \o Block(LineGood),
     "### " \o CHECK \o " Correct\n" \o LongProse \o Block(LineGood),
     "### " \o CROSS \o " Incorrect\n" \o LongProse \o Block(LineBad),
     "Bad:\n" \o Block(LineBad),
     "DON'T\n" \o Block(LineBad),
     Block(LineBad)}

Closings == {"", "## Notes\n\nNo code here.\n"}

RECURSIVE concat_items(_)
concat_items(items) ==
    IF items = <<>> THEN "" ELSE Head(items) \o "\n" \o concat_items(Tail(items))

Bodies == {concat_items(items) : items \in UNION {[1..n -> Items] : n \in 1..MaxBlocks}}

LoaderDocs ==
    {pre \o "## " \o title \o "\n\n" \o body \o closing :
        pre \in Preambles, title \in Titles, body \in Bodies, closing \in Closings}

InitLoader ==
    /\ skill = "auth-py"
    /\ doc \in {<<>>} \cup {<<d>> : d \in LoaderDocs}
    /\ criteria = <<>>
    /\ raised = ""
    /\ evaluator = <<>>
    /\ results = <<>>
    /\ loads = <<>>
    /\ calls = <<>>
    /\ matched = <<>>

NextLoader == Load

LoaderSpec == InitLoader /\ [][NextLoader]_vars

(***************************************************************************)
(* load called again: the skill is loaded up to MaxLoads times over the    *)
(* same document, which is missing, empty, or a section of two blocks.     *)
(***************************************************************************)
MaxLoads == 3

ReloadDocs ==
    {""} \cup
    {pre \o "## " \o title \o "\n\n" \o concat_items(items) \o closing :
        pre \in Preambles, title \in Titles, items \in [1..2 -> Items],
        closing \in Closings}

InitReload ==
    /\ skill = "auth-py"
    /\ doc \in {<<>>} \cup {<<d>> : d \in ReloadDocs}
    /\ criteria = <<>>
    /\ raised = ""
    /\ evaluator = <<>>
    /\ results = <<>>
    /\ loads = <<>>
    /\ calls = <<>>
    /\ matched = <<>>

\* AcceptanceCriteriaLoader.load(skill), called once more over the same file
Reload ==
    /\ loads # <<>>
    /\ Len(loads) < MaxLoads
    /\ loads' = Append(loads, _parse_criteria(skill, criteria_path(skill), doc[1]))
    /\ UNCHANGED <<skill, doc, criteria, raised, evaluator, results, calls, matched>>

NextReload == Load \/ Reload

ReloadSpec == InitReload /\ [][NextReload]_vars

(***************************************************************************)
(* The matchers one call at a time: a document of anti-patterns, one       *)
(* evaluate call or one direct _pattern_matches call on a piece of code.   *)
(***************************************************************************)
PatternEndpoint == "endpoint = get_endpoint()\nclient = Client(endpoint=endpoint)"
PatternPipeline ==
    "source = open_source(path)\nresult = client.run(source)\nreport = publish(result)"
PatternPadded == LineBad \o "\nretries =      3"
LineImport == "import requests"

\* one section for each anti-pattern
DocMatchers ==
    "## Endpoint\n\n### " \o CROSS \o " Incorrect\n" \o Block(PatternEndpoint)
    \o "\n## Pipeline\n\n### " \o CROSS \o " Incorrect\n" \o Block(PatternPipeline)
    \o "\n## Retries\n\n### " \o CROSS \o " Incorrect\n" \o Block(PatternPadded)
    \o "\n## Requests\n\n### " \o CROSS \o " Incorrect\n" \o Block(LineImport)
    \o "\n## Old SDK\n\n### " \o CROSS \o " Incorrect\n" \o Block(LineOldImport)

MatchDocs == {DocMatchers, DocAuthentication}

MatchSkills == {"auth-py", "auth-ts", "Auth-TS", "auth", "auth-dotnet", "auth-java"}

MatchCodes ==
    {"",
     LineBad,
     "client = Client(key='hardcoded')",
     "client  =  Client(key=\"hardcoded\")",
     PatternEndpoint,
     "endpoint = get_endpoint()\n\nclient = Client(endpoint=endpoint)",
     "endpoint = get_endpoint()  # from the environment\nclient = Client(endpoint=endpoint)  # the default",
     "client = Client(url=endpoint)",
     "source = open_source(path)\nreport = publish(result)",
     LineImport,
     LineOldImport,
     LineSyntaxError,
     "name = '" \o SURROGATE \o "'"}

InitMatch ==
    /\ skill \in MatchSkills
    /\ doc \in {<<d>> : d \in MatchDocs}
    /\ criteria = <<>>
    /\ raised = ""
    /\ evaluator = <<>>
    /\ results = <<>>
    /\ loads = <<>>
    /\ calls = <<>>
    /\ matched = <<>>

\* the first evaluate call on the evaluator
EvaluateOnce(code) ==
    /\ results = <<>>
    /\ raised = ""
    /\ matched = <<>>
    /\ Evaluate(code, "")

\* evaluator._pattern_matches(code, pattern, is_incorrect) on a pattern of the
\* criteria
PatternMatches(code, pattern, is_incorrect) ==
    /\ evaluator # <<>>
    /\ matched = <<>>
    /\ results = <<>>
    /\ raised = ""
    /\ matched' = <<[code |-> code, pattern |-> pattern, is_incorrect |-> is_incorrect,
                     value |-> _pattern_matches(evaluator[1], code, pattern, is_incorrect)]>>
    /\ UNCHANGED <<skill, doc, criteria, raised, evaluator, results, loads, calls>>

\* the flat patterns of criteria crit
FlatPatterns(crit) == crit.correct_patterns \o crit.incorrect_patterns

NextMatch ==
    \/ Load
    \/ Construct
    \/ \E code \in MatchCodes : EvaluateOnce(code)
    \/ \E code \in MatchCodes, is_incorrect \in BOOLEAN :
          \E k \in 1..(IF evaluator = <<>> THEN 0 ELSE Len(FlatPatterns(evaluator[1].criteria))) :
              PatternMatches(code, FlatPatterns(evaluator[1].criteria)[k], is_incorrect)

MatchSpec == InitMatch /\ [][NextMatch]_vars

(***************************************************************************)
(* Concurrent evaluate calls on one shared CodeEvaluator: each call is a   *)
(* thread with its own local `result`; a step is one statement of          *)
(* evaluate. The threads read self.criteria and the compiled regex lists.  *)
(***************************************************************************)
\* how many evaluate calls run at once, at most
MaxThreads == 2

\* one document with both sections: a correct pattern, anti-patterns, an import
ConcDocs == {DocAuthentication \o "\n" \o DocClientSetup}

\* the codes of the concurrent calls: an anti-pattern, a correct pattern next
\* to an incorrect import, code that does not parse, code ast cannot encode
ConcCodes ==
    {LineBad, LineGood \o "\n" \o LineOldImport, LineSyntaxError,
     "name = '" \o SURROGATE \o "'"}

InitConc ==
    /\ skill = "auth-py"
    /\ doc \in {<<d>> : d \in ConcDocs}
    /\ criteria = <<>>
    /\ raised = ""
    /\ evaluator = <<>>
    /\ results = <<>>
    /\ loads = <<>>
    /\ calls = <<>>
    /\ matched = <<>>

\* a result that starts with the findings of the call begun before it
new_result_shared(self, code, scenario) ==
    [EvaluationResult(self.criteria.skill_name, scenario, code) EXCEPT
        !.findings = IF calls = <<>> THEN <<>> ELSE calls[Len(calls)].result.findings]

\* result = EvaluationResult(skill_name=self.criteria.skill_name, ...)
new_result(self, code, scenario) ==
    EvaluationResult(self.criteria.skill_name, scenario, code)

\* a thread enters evaluate(code, scenario) and creates its result
Begin(code, scenario) ==
    /\ evaluator # <<>>
    /\ Len(calls) < MaxThreads
    /\ calls' = Append(calls, [code |-> code, scenario |-> scenario, pc |-> "syntax",
                               rule |-> 1,
                               result |-> new_result(evaluator[1], code, scenario)])
    /\ UNCHANGED <<skill, doc, criteria, raised, evaluator, results, loads, matched>>

\* what a step of thread t leaves alone
StepFrame == UNCHANGED <<skill, doc, criteria, raised, evaluator, loads, matched>>

\* if not self._check_syntax(code, result): result.score = 0.0; return result
CheckSyntax(t) ==
    /\ calls[t].pc = "syntax"
    /\ IF evaluate_raises(evaluator[1], calls[t].code) # ""
       THEN /\ calls' = [calls EXCEPT ![t].pc = "raised"]
            /\ UNCHANGED results
       ELSE IF syntax_ok(evaluator[1], calls[t].code)
       THEN /\ calls' = [calls EXCEPT ![t].pc = "imports"]
            /\ UNCHANGED results
       ELSE /\ calls' = [calls EXCEPT
                           ![t].result = [_check_syntax(evaluator[1], calls[t].code, @)
                                             EXCEPT !.score = 0],
                           ![t].pc = "done"]
            /\ results' = Append(results, calls'[t].result)
    /\ StepFrame

\* self._check_imports(code, result)
CheckImports(t) ==
    /\ calls[t].pc = "imports"
    /\ calls' = [calls EXCEPT
                    ![t].result = _check_imports(evaluator[1], calls[t].code, @),
                    ![t].pc = "incorrect"]
    /\ UNCHANGED results
    /\ StepFrame

\* self._check_incorrect_patterns(code, result)
CheckIncorrect(t) ==
    /\ calls[t].pc = "incorrect"
    /\ calls' = [calls EXCEPT
                    ![t].result = _check_incorrect_patterns(evaluator[1], calls[t].code, @),
                    ![t].pc = "correct"]
    /\ UNCHANGED results
    /\ StepFrame

\* self._check_correct_patterns(code, result)
CheckCorrect(t) ==
    /\ calls[t].pc = "correct"
    /\ calls' = [calls EXCEPT
                    ![t].result = _check_correct_patterns(evaluator[1], calls[t].code, @),
                    ![t].pc = "rules"]
    /\ UNCHANGED results
    /\ StepFrame

\* one turn of: for rule in self.criteria.rules: self._check_rule(code, rule, result)
CheckRule(t) ==
    /\ calls[t].pc = "rules"
    /\ calls[t].rule <= Len(evaluator[1].criteria.rules)
    /\ calls' = [calls EXCEPT
                    ![t].result = _check_rule(evaluator[1], calls[t].code,
                                              evaluator[1].criteria.rules[calls[t].rule], @),
                    ![t].rule = @ + 1]
    /\ UNCHANGED results
    /\ StepFrame

\* result.score = self._calculate_score(result); return result
Return(t) ==
    /\ calls[t].pc = "rules"
    /\ calls[t].rule > Len(evaluator[1].criteria.rules)
    /\ calls' = [calls EXCEPT
                    ![t].result.score = _calculate_score(calls[t].result),
                    ![t].pc = "done"]
    /\ results' = Append(results, calls'[t].result)
    /\ StepFrame

NextConc ==
    \/ Load
    \/ Construct
    \/ \E code \in ConcCodes : Begin(code, "")
    \/ \E t \in 1..Len(calls) : CheckSyntax(t)
    \/ \E t \in 1..Len(calls) : CheckImports(t)
    \/ \E t \in 1..Len(calls) : CheckIncorrect(t)
    \/ \E t \in 1..Len(calls) : CheckCorrect(t)
    \/ \E t \in 1..Len(calls) : CheckRule(t)
    \/ \E t \in 1..Len(calls) : Return(t)

ConcSpec == InitConc /\ [][NextConc]_vars

(***************************************************************************)
(* The loader on fences and import lines: one section of two fenced blocks *)
(* with or without a language tag, after an introduction that may name     *)
(* imports, loaded for a python and for a typescript skill.                *)
(***************************************************************************)
LineTypescript == "const client = new Client(credential);"
LineCpp == "auto client = Client(credential);"
LineImportBlock == "from azure.core import Client\nclient = Client(credential)"

\* a fenced block with the given info string (the tag, or none)
Fenced(tag, code) == FENCE \o tag \o "\n" \o code \o "\n" \o FENCE \o "\n"

FenceIntros ==
    {"",
     "Required: from azure.core import Client, Credential.\n\n",
     "Required: from azure.core import Client, Credential\nThen build the client.\n\n"}

FenceItems ==
    {Fenced("", LineGood),
     Fenced("typescript", LineTypescript),
     Fenced("c++", LineCpp),
     "### " \o CROSS \o " Incorrect\n" \o Block(LineBad),
     Block(LineImportBlock)}

FenceProse == {"", "Then call it.\n"}

FenceDocs ==
    {"## Client\n\n" \o intro \o first \o prose \o second :
        intro \in FenceIntros, first \in FenceItems, prose \in FenceProse,
        second \in FenceItems}

FenceSkills == {"auth-py", "auth-ts"}

InitFence ==
    /\ skill \in FenceSkills
    /\ doc \in {<<d>> : d \in FenceDocs}
    /\ criteria = <<>>
    /\ raised = ""
    /\ evaluator = <<>>
    /\ results = <<>>
    /\ loads = <<>>
    /\ calls = <<>>
    /\ matched = <<>>

NextFence == Load

FenceSpec == InitFence /\ [][NextFence]_vars

(***************************************************************************)
(* The score against the verdict: criteria with four correct patterns and  *)
(* an anti-pattern of three lines, and code that holds some of them.       *)
(***************************************************************************)
LineConnect == "client.connect()"
LineSend == "client.send(message)"
LineClose == "client.close()"

DocBonus ==
    "## Client\n\n### " \o CHECK \o " Correct\n" \o Block(LineGood)
    \o "\n### " \o CHECK \o " Correct\n" \o Block(LineConnect)
    \o "\n### " \o CHECK \o " Correct\n" \o Block(LineSend)
    \o "\n### " \o CHECK \o " Correct\n" \o Block(LineClose)
    \o "\n## Pipeline\n\n### " \o CROSS \o " Incorrect\n" \o Block(PatternPipeline)

AllCorrect == LineGood \o "\n" \o LineConnect \o "\n" \o LineSend \o "\n" \o LineClose

\* two of the three lines of the anti-pattern
TwoOfPipeline == "source = open_source(path)\nreport = publish(result)"

ScoreCodes ==
    {LineGood,
     AllCorrect,
     TwoOfPipeline,
     AllCorrect \o "\n" \o TwoOfPipeline,
     AllCorrect \o "\n" \o PatternPipeline}

InitScore ==
    /\ skill \in Skills
    /\ doc = <<DocBonus>>
    /\ criteria = <<>>
    /\ raised = ""
    /\ evaluator = <<>>
    /\ results = <<>>
    /\ loads = <<>>
    /\ calls = <<>>
    /\ matched = <<>>

NextScore ==
    \/ Load
    \/ Construct
    \/ \E code \in ScoreCodes : Evaluate(code, "")

ScoreSpec == InitScore /\ [][NextScore]_vars

(***************************************************************************)
(* Properties of evaluate (specification Spec).                            *)
(***************************************************************************)
\* the criteria are as the loader returned them: no rule has required_patterns
FromLoader(crit) ==
    \A k \in 1..Len(crit.rules) : crit.rules[k].required_patterns = <<>>

HasLine(code, line) == InSeq(line, split_lines(code))

Rules(findings) == [k \in 1..Len(findings) |-> findings[k].rule]

CountSeverity(findings, severity) ==
    Cardinality({k \in 1..Len(findings) : findings[k].severity = severity})

\* the case of C1: the Authentication document, loaded for a python skill and not
\* changed, and result r of code that holds both of its lines
C1_Case(r) ==
    /\ doc = <<DocAuthentication>>
    /\ language(skill) = "python"
    /\ FromLoader(evaluator[1].criteria)
    /\ HasLine(r.generated_code, LineGood)
    /\ HasLine(r.generated_code, LineBad)

\* C1 as stated: in the Authentication scenario the result has exactly one ERROR
\* finding, matched_correct and matched_incorrect contain "Authentication", and
\* the score is 70.
C1_AsStated ==
    \A k \in 1..Len(results) :
        C1_Case(results[k]) =>
            /\ CountSeverity(results[k].findings, "ERROR") = 1
            /\ InSeq("Authentication", results[k].matched_correct)
            /\ InSeq("Authentication", results[k].matched_incorrect)
            /\ results[k].score = 70

\* C1 amended: in the Authentication scenario the result has exactly two
\* findings, both ERROR, the flat scan's "pattern:Authentication" followed by
\* the rule-scoped scan's "Authentication"; matched_correct and
\* matched_incorrect are each ["Authentication"]; the score is 50.
C1_TwoErrorsScore50 ==
    \A k \in 1..Len(results) :
        C1_Case(results[k]) =>
            /\ Rules(results[k].findings) = <<"pattern:Authentication", "Authentication">>
            /\ CountSeverity(results[k].findings, "ERROR") = 2
            /\ results[k].matched_correct = <<"Authentication">>
            /\ results[k].matched_incorrect = <<"Authentication">>
            /\ results[k].score = 50

C1_Witness == \E k \in 1..Len(results) : C1_Case(results[k])

\* the rubric's sum for result r, before any clamping
RubricSum(r) ==
    100 - 20 * CountSeverity(r.findings, "ERROR")
        - 5 * CountSeverity(r.findings, "WARNING")
        + 5 * Len(r.matched_correct)
        - 15 * Len(r.matched_incorrect)

\* C2: every result of evaluate has 0 <= score <= 100, on the syntax-error path
\* and on the full path.
C2_ScoreInRange ==
    \A k \in 1..Len(results) : 0 <= results[k].score /\ results[k].score <= 100

\* a result whose findings and matches sum to less than 0
C2_Witness ==
    \E k \in 1..Len(results) :
        /\ CountSeverity(results[k].findings, "ERROR") >= 5
        /\ RubricSum(results[k]) < 0

\* C3: for python criteria, code that does not parse gets exactly one finding,
\* an ERROR of rule "syntax", score 0 and no matches: no later stage has run.
C3_SyntaxErrorOnly ==
    \A k \in 1..Len(results) :
        (language(skill) = "python" /\ ~ast_parses(results[k].generated_code)) =>
            /\ Len(results[k].findings) = 1
            /\ results[k].findings[1].severity = "ERROR"
            /\ results[k].findings[1].rule = "syntax"
            /\ results[k].score = 0
            /\ results[k].matched_correct = <<>>
            /\ results[k].matched_incorrect = <<>>

\* unparsable code that also holds an anti-pattern of the loaded criteria
C3_Witness ==
    \E k \in 1..Len(results) :
        /\ language(skill) = "python"
        /\ ~ast_parses(results[k].generated_code)
        /\ HasLine(results[k].generated_code, LineBad)
        /\ \E n \in 1..Len(criteria[1].incorrect_patterns) :
              criteria[1].incorrect_patterns[n].code = LineBad

\* C4: past the syntax check, the score is 50 when there are no findings and no
\* matched_correct entries, and the clamped rubric sum otherwise.
C4_ScoreFormula ==
    \A k \in 1..Len(results) :
        (language(skill) # "python" \/ ast_parses(results[k].generated_code)) =>
            results[k].score =
                IF Len(results[k].findings) = 0 /\ Len(results[k].matched_correct) = 0
                THEN 50
                ELSE IF RubricSum(results[k]) < 0 THEN 0
                ELSE IF RubricSum(results[k]) > 100 THEN 100
                ELSE RubricSum(results[k])

\* the empty code string against criteria that have patterns: neutral, passed
C4_Witness ==
    \E k \in 1..Len(results) :
        /\ results[k].generated_code = ""
        /\ doc = <<DocAuthentication>>
        /\ results[k].findings = <<>>
        /\ results[k].score = 50
        /\ passed(results[k])

SuffixLanguage(name) ==
    IF endswith(name, "-py") THEN "python"
    ELSE IF endswith(name, "-dotnet") THEN "csharp"
    ELSE IF endswith(name, "-ts") THEN "typescript"
    ELSE IF endswith(name, "-java") THEN "java"
    ELSE "python"

HasRule(r, rule) == \E n \in 1..Len(r.findings) : r.findings[n].rule = rule

\* the criteria hold the anti-pattern LineOldImport and the code imports it
OldImportHit(r) ==
    /\ HasLine(r.generated_code, LineOldImport)
    /\ \E n \in 1..Len(criteria[1].incorrect_patterns) :
          criteria[1].incorrect_patterns[n].code = LineOldImport

\* what the results show of the syntax and import checks when they run for
\* python only
ChecksFollow(python) ==
    \A k \in 1..Len(results) :
        IF python
        THEN /\ ~ast_parses(results[k].generated_code) => HasRule(results[k], "syntax")
             /\ (ast_parses(results[k].generated_code) /\ OldImportHit(results[k]))
                    => HasRule(results[k], "imports")
        ELSE ~HasRule(results[k], "syntax") /\ ~HasRule(results[k], "imports")

\* C13 as stated: language is given by the suffix of the skill name as written
\* (-py python, -dotnet csharp, -ts typescript, -java java, else python), and
\* the syntax and import checks run exactly for the names that end in -py or in
\* none of the four suffixes.
C13_SuffixAsWritten ==
    criteria # <<>> =>
        /\ language(criteria[1].skill_name) = SuffixLanguage(skill)
        /\ ChecksFollow(SuffixLanguage(skill) = "python")

\* C13 amended: language is given by the suffix of the lowercased skill name, so
\* a suffix counts in any letter case, and the syntax and import checks run
\* exactly for the names whose lowercased form ends in -py or in none of the
\* four suffixes.
C13_SuffixOfLowercasedName ==
    criteria # <<>> =>
        /\ language(criteria[1].skill_name) = SuffixLanguage(lower(skill))
        /\ ChecksFollow(SuffixLanguage(lower(skill)) = "python")

\* unparsable code evaluated for a skill with an upper-case suffix: no finding
C13_Witness ==
    /\ skill = "Auth-TS"
    /\ results # <<>>
    /\ results[1].generated_code = LineSyntaxError
    /\ results[1].findings = <<>>


\* the calls that reach the exact matcher: an anti-pattern whose first line is
\* no import
ExactCall(m) ==
    /\ m.is_incorrect
    /\ pattern_code_lines(m.pattern) # <<>>
    /\ ~startswith(pattern_code_lines(m.pattern)[1], "from ")
    /\ ~startswith(pattern_code_lines(m.pattern)[1], "import ")

\* the pattern lines whose normalized form has 15 characters or more
StatedSignificant(pattern_lines) ==
    {k \in 1..Len(pattern_lines) : Len(normalize(pattern_lines[k])) >= 15}

\* the verdict by significant lines, with test(pattern_line, code_line) the
\* per-line test on normalized lines
StatedVerdict(code, pattern_lines, test(_, _)) ==
    LET significant == StatedSignificant(pattern_lines)
        code_lines == code_lines_normalized(code)
        hits == {k \in significant :
                    \E n \in 1..Len(code_lines) :
                        test(normalize(pattern_lines[k]), code_lines[n])}
    IN  IF Cardinality(significant) <= 2
        THEN Cardinality(significant) >= 1 /\ hits = significant
        ELSE Cardinality(hits) >= 2

LineEquals(pattern_line, code_line) == pattern_line = code_line

\* C14 as stated: the exact matcher decides by the pattern lines whose
\* normalized form has length >= 15: with at most 2 of them it matches iff there
\* is one and each equals a normalized non-comment code line, with more iff at
\* least 2 do; the lines counted for the threshold are the lines tested.
C14_ExactBySignificantLines ==
    \A n \in 1..Len(matched) :
        ExactCall(matched[n]) =>
            matched[n].value =
                StatedVerdict(matched[n].code, pattern_code_lines(matched[n].pattern),
                              LineEquals)


LineUrl == "client = Client(url=endpoint)"

TwoWayContains(pattern_line, code_line) ==
    Contains(code_line, pattern_line) \/ Contains(pattern_line, code_line)

\* a direct call on the pattern of the two endpoint lines
EndpointCall(m) == m.pattern.code = PatternEndpoint

\* code that holds the line with url= and neither line of the pattern
OnlySimilar(code) ==
    /\ HasLine(code, LineUrl)
    /\ ~Contains(code, "endpoint = get_endpoint()")
    /\ ~Contains(code, "client = Client(endpoint=endpoint)")

\* C15 as stated: for the pattern of the two endpoint lines, code that holds
\* only the similar line client = Client(url=endpoint) does not satisfy the
\* exact matcher and does satisfy the flexible one.
C15_SimilarLineSatisfiesFlexible ==
    \A n \in 1..Len(matched) :
        (EndpointCall(matched[n]) /\ OnlySimilar(matched[n].code)) =>
            matched[n].value = ~matched[n].is_incorrect

\* C15 amended: for the pattern of the two endpoint lines (2 significant lines,
\* both required), the exact matcher is satisfied iff both equal a normalized
\* code line and the flexible matcher iff both contain or are contained in one;
\* code that holds only client = Client(url=endpoint) satisfies neither.
C15_ExactVsFlexible ==
    \A n \in 1..Len(matched) :
        EndpointCall(matched[n]) =>
            /\ StatedSignificant(pattern_code_lines(matched[n].pattern)) = {1, 2}
            /\ matched[n].value =
                  IF matched[n].is_incorrect
                  THEN StatedVerdict(matched[n].code,
                                     pattern_code_lines(matched[n].pattern), LineEquals)
                  ELSE StatedVerdict(matched[n].code,
                                     pattern_code_lines(matched[n].pattern), TwoWayContains)
            /\ OnlySimilar(matched[n].code) => ~matched[n].value

\* the flexible matcher satisfied by code that holds both lines of the pattern
\* followed by comments, which does not satisfy the exact matcher
C15_Witness ==
    \E n \in 1..Len(matched) :
        /\ EndpointCall(matched[n])
        /\ ~matched[n].is_incorrect
        /\ matched[n].value
        /\ ~HasLine(matched[n].code, "endpoint = get_endpoint()")
        /\ ~StatedVerdict(matched[n].code, pattern_code_lines(matched[n].pattern), LineEquals)


\* s with each quote character replaced by the quote of the other style
RECURSIVE OtherQuotes(_)
OtherQuotes(s) ==
    IF s = "" THEN ""
    ELSE (IF At(s, 0) = "\"" THEN "'" ELSE IF At(s, 0) = "'" THEN "\"" ELSE At(s, 0))
         \o OtherQuotes(Slice(s, 1, Len(s)))

\* the flat scan of incorrect patterns has found pattern p in result r
FlatFound(r, p) ==
    /\ InSeq(p.section, r.matched_incorrect)
    /\ HasRule(r, "pattern:" \o p.section)

\* the result of an evaluation that went past the syntax check
PastSyntax(r) == language(skill) # "python" \/ ast_parses(r.generated_code)

\* C16 as stated: the regex of a flat pattern takes either quote style for a
\* quote of the pattern, so an incorrect pattern with a quoted literal is found
\* in code that holds it with the quotes of the other style.
C16_QuotesInterchangeable ==
    \A k \in 1..Len(results) :
        \A n \in 1..Len(criteria[1].incorrect_patterns) :
            (/\ PastSyntax(results[k])
             /\ OtherQuotes(criteria[1].incorrect_patterns[n].code)
                    # criteria[1].incorrect_patterns[n].code
             /\ Contains(results[k].generated_code,
                         OtherQuotes(criteria[1].incorrect_patterns[n].code)))
            => FlatFound(results[k], criteria[1].incorrect_patterns[n])


\* the regex of the stated loosening of pattern text: a space is one or more
\* whitespace characters, a newline zero or more, any other character itself
StatedRegex(text) ==
    [i \in 1..Len(text) |->
        IF At(text, i - 1) = " " THEN Atom(Whitespace, "+")
        ELSE IF At(text, i - 1) = "\n" THEN Atom(Whitespace, "*")
        ELSE Atom({At(text, i - 1)}, "1")]

\* C17 as stated: the regex of a flat pattern takes one or more whitespace
\* characters for each space of the pattern and zero or more for each newline,
\* so a multi-line incorrect pattern is found in code that holds its lines with
\* blank lines between them.
C17_WhitespaceLoosened ==
    \A k \in 1..Len(results) :
        \A n \in 1..Len(criteria[1].incorrect_patterns) :
            (/\ PastSyntax(results[k])
             /\ re_search(StatedRegex(strip(criteria[1].incorrect_patterns[n].code)),
                          results[k].generated_code))
            => FlatFound(results[k], criteria[1].incorrect_patterns[n])


\* C18 as stated: once the evaluator is built no call raises: every evaluate
\* call ends with an EvaluationResult, and unparsable code gives a syntax
\* finding.
C18_EvaluateNeverRaises ==
    evaluator # <<>> =>
        /\ raised = ""
        /\ \A k \in 1..Len(results) :
              (language(skill) = "python" /\ ~ast_parses(results[k].generated_code))
                  => HasRule(results[k], "syntax")


\* result r has an "imports" finding that refers to the section of pattern p
ImportFound(r, p) ==
    \E f \in 1..Len(r.findings) :
        /\ r.findings[f].severity = "ERROR"
        /\ r.findings[f].rule = "imports"
        /\ r.findings[f].suggestion = "Check acceptance criteria section: " \o p.section

\* pattern p has an import line that, normalized, is in the set of imports
ImportStated(p, imports) ==
    /\ Contains(lower(p.code), "import")
    /\ \E n \in 1..Len(pattern_import_lines(p.code)) :
          normalize(pattern_import_lines(p.code)[n]) \in imports

\* C20 as stated: for python criteria and parsable code, an "imports" ERROR
\* finding is emitted for a flat incorrect pattern exactly when the pattern
\* contains the word "import" and one of its import lines, normalized, equals
\* an entry of the code's import set, which holds the "from X import Y" and the
\* "import Y" strings of the code.
C20_ImportFindings ==
    \A k \in 1..Len(results) :
        (language(skill) = "python" /\ ast_parses(results[k].generated_code)) =>
            \A n \in 1..Len(criteria[1].incorrect_patterns) :
                ImportFound(results[k], criteria[1].incorrect_patterns[n])
                    <=> ImportStated(criteria[1].incorrect_patterns[n],
                                     ImportSet(results[k].generated_code))


\* how many ERROR findings of result r carry the name of rule and the snippet
\* of its pattern p
RuleFindings(r, rule, p) ==
    Cardinality({f \in 1..Len(r.findings) :
                    /\ r.findings[f].severity = "ERROR"
                    /\ r.findings[f].rule = rule.name
                    /\ r.findings[f].code_snippet = Slice(p.code, 0, SnippetLen)})

\* the first non-comment line of pattern p is an import statement
ImportFirst(p) ==
    /\ pattern_code_lines(p) # <<>>
    /\ \/ startswith(pattern_code_lines(p)[1], "from ")
       \/ startswith(pattern_code_lines(p)[1], "import ")

\* the rule-scoped findings of every result past the syntax check are as
\* verdict(code, pattern) says, one per matching pattern
RuleScan(verdict(_, _)) ==
    \A k \in 1..Len(results) :
        PastSyntax(results[k]) =>
            \A n \in 1..Len(criteria[1].rules) :
                \A i \in 1..Len(criteria[1].rules[n].incorrect_patterns) :
                    RuleFindings(results[k], criteria[1].rules[n],
                                 criteria[1].rules[n].incorrect_patterns[i])
                        = IF verdict(results[k].generated_code,
                                     criteria[1].rules[n].incorrect_patterns[i])
                          THEN 1 ELSE 0

ExactVerdict(code, p) == _multi_line_pattern_matches_exact(code, pattern_code_lines(p))

\* an import line of p, normalized, is an import of the code (python only)
ImportVerdict(code, p) ==
    /\ language(skill) = "python"
    /\ \E n \in 1..Len(pattern_code_lines(p)) :
          /\ \/ startswith(pattern_code_lines(p)[n], "from ")
             \/ startswith(pattern_code_lines(p)[n], "import ")
          /\ normalize(pattern_code_lines(p)[n]) \in ImportSet(code)

RoutedVerdict(code, p) ==
    IF ImportFirst(p) THEN ImportVerdict(code, p) ELSE ExactVerdict(code, p)

\* C21 as stated: for every rule and every incorrect pattern of the rule,
\* evaluate emits one ERROR finding named after the rule exactly when the exact
\* multi-line matcher matches the pattern's non-comment lines, import patterns
\* included.
C21_RuleScanExact == RuleScan(ExactVerdict)

\* C21 amended: on code past the syntax check, a pattern whose first
\* non-comment line is no import gives one ERROR finding named after the rule
\* exactly when the exact matcher matches; a pattern whose first non-comment
\* line is an import gives one exactly when the skill is python and one of its
\* import lines, normalized, is an import statement of the code.
C21_RuleScanRouted == RuleScan(RoutedVerdict)

\* a typescript skill: the code holds the import line of the anti-pattern, the
\* exact matcher would match, and the rule gives no finding
C21_Witness ==
    /\ language(skill) = "typescript"
    /\ results # <<>>
    /\ results[1].generated_code = LineOldImport
    /\ \E n \in 1..Len(criteria[1].rules) :
          /\ criteria[1].rules[n].name = "Old SDK"
          /\ ExactVerdict(LineOldImport, criteria[1].rules[n].incorrect_patterns[1])
    /\ ~HasRule(results[1], "Old SDK")
    /\ HasRule(results[1], "pattern:Old SDK")


(***************************************************************************)
(* Properties of the pipeline of evaluate (specification Spec).             *)
(***************************************************************************)
\* the sections of the flat patterns whose regex compiles and is found in code,
\* in the order of the list
FoundSections(patterns, code) ==
    LET Found(p) ==
            /\ re_compile(regex_source(p.code)) # <<>>
            /\ re_search(re_compile(regex_source(p.code))[1], code)
        found == SelectSeq(patterns, Found)
    IN  [k \in 1..Len(found) |-> found[k].section]

IsFlatFinding(f) == startswith(f.rule, "pattern:")
IsImportsFinding(f) == f.rule = "imports"
IsRuleFinding(f) == \E n \in 1..Len(criteria[1].rules) : f.rule = criteria[1].rules[n].name

\* C22: after evaluate on code that passes the syntax check, matched_incorrect
\* holds the section of every compiled flat incorrect pattern found in the code,
\* the findings with rule pattern:<section> are ERROR findings for the same
\* sections in the same order, matched_correct holds the section of every
\* compiled flat correct pattern found (duplicates kept), and the correct scan
\* adds no finding.
C22_FlatScans ==
    \* results is only appended to: each result is looked at when it is returned
    \A k \in {Len(results)} \ {0} :
        PastSyntax(results[k]) =>
            LET r == results[k]
                flat == SelectSeq(r.findings, IsFlatFinding)
            IN  /\ r.matched_incorrect
                      = FoundSections(criteria[1].incorrect_patterns, r.generated_code)
                /\ Len(flat) = Len(r.matched_incorrect)
                /\ \A n \in 1..Len(flat) :
                      /\ flat[n].severity = "ERROR"
                      /\ flat[n].rule = "pattern:" \o r.matched_incorrect[n]
                /\ r.matched_correct
                      = FoundSections(criteria[1].correct_patterns, r.generated_code)
                /\ Len(r.findings) = Len(SelectSeq(r.findings, IsImportsFinding))
                                     + Len(flat)
                                     + Len(SelectSeq(r.findings, IsRuleFinding))

\* two anti-patterns of one section found in the code: the section is recorded
\* twice
C22_Witness ==
    \E k \in 1..Len(results) :
        /\ PastSyntax(results[k])
        /\ results[k].matched_incorrect = <<"Client Setup", "Client Setup">>
        /\ Len(SelectSeq(results[k].findings, IsFlatFinding)) = 2


\* the evaluator with the correct patterns of every rule taken away (the flat
\* lists and the regex lists as they are)
WithoutRuleCorrect(self) ==
    [self EXCEPT !.criteria.rules =
        [n \in 1..Len(@) |-> [@[n] EXCEPT !.correct_patterns = <<>>]]]

\* the flexible matcher matches a correct pattern of a rule against code
RuleCorrectMatches(self, code) ==
    \E n \in 1..Len(self.criteria.rules) :
        \E i \in 1..Len(self.criteria.rules[n].correct_patterns) :
            _pattern_matches(self, code, self.criteria.rules[n].correct_patterns[i], FALSE)

\* C25 as stated: evaluate applies the flexible matcher to the correct patterns
\* of each rule, so these patterns influence its result: when one of them
\* matches the code, the result is not the result the same criteria give
\* without the rules' correct patterns.
C25_RuleCorrectPatternsCount ==
    \A k \in {Len(results)} \ {0} :
        (/\ PastSyntax(results[k])
         /\ RuleCorrectMatches(evaluator[1], results[k].generated_code))
        => results[k] # evaluate(WithoutRuleCorrect(evaluator[1]),
                                 results[k].generated_code, results[k].scenario)


\* the (rule, required substring) pairs of the criteria whose substring is not
\* in code
MissingRequired(crit, code) ==
    UNION {{<<n, i>> : i \in {i \in 1..Len(crit.rules[n].required_patterns) :
                                 ~Contains(code, crit.rules[n].required_patterns[i])}} :
           n \in 1..Len(crit.rules)}

\* C28: the rules of criteria that load returns have no required_patterns,
\* forbidden_patterns or forbidden_imports, so every finding of evaluate with
\* such criteria is an ERROR and warning_count is 0; WARNING findings arise only
\* when rules were given required_patterns afterwards, one for each required
\* substring that is not in the code.
C28_WarningsOnlyFromRequiredPatterns ==
    /\ \A k \in 1..Len(loads) :
          \A n \in 1..Len(loads[k].rules) :
              /\ loads[k].rules[n].required_patterns = <<>>
              /\ loads[k].rules[n].forbidden_patterns = <<>>
              /\ loads[k].rules[n].forbidden_imports = <<>>
    /\ \A k \in {Len(results)} \ {0} :
          LET r == results[k]
              crit == evaluator[1].criteria
          IN  /\ crit = loads[1] =>
                    /\ warning_count(r) = 0
                    /\ \A f \in 1..Len(r.findings) : r.findings[f].severity = "ERROR"
              /\ CountSeverity(r.findings, "WARNING")
                    = IF PastSyntax(r)
                      THEN Cardinality(MissingRequired(crit, r.generated_code))
                      ELSE 0
              /\ \A f \in 1..Len(r.findings) :
                    r.findings[f].severity = "WARNING" =>
                        \E m \in MissingRequired(crit, r.generated_code) :
                            /\ r.findings[f].rule = crit.rules[m[1]].name
                            /\ r.findings[f].message
                                  = "Missing recommended pattern: "
                                    \o crit.rules[m[1]].required_patterns[m[2]]

\* criteria as loaded, code with an anti-pattern and without the correct
\* pattern: findings, all of them errors
C28_Witness ==
    /\ evaluator # <<>>
    /\ evaluator[1].criteria = loads[1]
    /\ \E k \in 1..Len(results) :
          /\ Len(results[k].findings) >= 2
          /\ warning_count(results[k]) = 0
          /\ error_count(results[k]) = Len(results[k].findings)
          /\ ~Contains(results[k].generated_code, "DefaultCredential")


(***************************************************************************)
(* Properties of concurrent evaluate calls (specification ConcSpec).       *)
(***************************************************************************)
\* what call c returns when it runs alone
Alone(c) == evaluate(evaluator[1], c.code, c.scenario)

IsPrefix(s, t) == Len(s) <= Len(t) /\ SubSeq(t, 1, Len(s)) = s

\* C19: under every interleaving of evaluate calls on one CodeEvaluator each
\* call returns the result it returns when run alone, a call in progress holds
\* only findings and matched sections of its own result, and the criteria and
\* the compiled regex lists stay as they were built.
C19_CallsDoNotInterfere ==
    /\ \A t \in 1..Len(calls) :
          IF evaluate_raises(evaluator[1], calls[t].code) # ""
          THEN /\ calls[t].pc \in {"syntax", "raised"}
               /\ calls[t].result = EvaluationResult(skill, calls[t].scenario, calls[t].code)
          ELSE LET alone == Alone(calls[t])
               IN  /\ calls[t].pc # "raised"
                   /\ calls[t].pc = "done" => calls[t].result = alone
                   /\ IsPrefix(calls[t].result.findings, alone.findings)
                   /\ IsPrefix(calls[t].result.matched_correct, alone.matched_correct)
                   /\ IsPrefix(calls[t].result.matched_incorrect, alone.matched_incorrect)
    /\ \A k \in 1..Len(results) :
          \E t \in 1..Len(calls) : calls[t].pc = "done" /\ results[k] = calls[t].result
    /\ evaluator # <<>> =>
          /\ criteria = <<loads[1]>>
          /\ evaluator = <<CodeEvaluator(loads[1])>>

\* two calls with different code ran interleaved and both returned findings, the
\* call begun second returning first
C19_Witness ==
    /\ Len(calls) = 2
    /\ calls[1].pc = "done" /\ calls[2].pc = "done"
    /\ calls[1].code # calls[2].code
    /\ calls[1].result.findings # <<>> /\ calls[2].result.findings # <<>>
    /\ calls[1].result.findings # calls[2].result.findings
    /\ results = <<calls[2].result, calls[1].result>>
    /\ syntax_ok(evaluator[1], calls[1].code) /\ syntax_ok(evaluator[1], calls[2].code)

(***************************************************************************)
(* Properties of load on fences and imports (specification FenceSpec).     *)
(***************************************************************************)
\* The fenced blocks of text s from offset pos on, as markdown delimits them:
\* an opening fence, its info string up to the end of the line, the content up
\* to the closing fence.
RECURSIVE FencedBlocks(_, _)
FencedBlocks(s, pos) ==
    LET open == find_from(s, FENCE, pos)
        eol == IF open = -1 THEN -1 ELSE find_from(s, "\n", open + 3)
        close == IF eol = -1 THEN -1 ELSE find_from(s, FENCE, eol + 1)
    IN  IF close = -1 THEN <<>>
        ELSE <<[info |-> Slice(s, open + 3, eol), content |-> Slice(s, eol + 1, close)]>>
             \o FencedBlocks(s, close + 3)

\* the flat patterns of the loaded criteria
Loaded == criteria[1].correct_patterns \o criteria[1].incorrect_patterns

\* C23 as stated: a pattern from a fence without a language tag has the
\* criteria's declared language as its language, a pattern from a tagged fence
\* the tag.
C23_UntaggedGetsCriteriaLanguage ==
    criteria # <<>> =>
        \A n \in 1..Len(Loaded) :
            \A b \in 1..Len(FencedBlocks(doc[1], 0)) :
                strip(FencedBlocks(doc[1], 0)[b].content) = Loaded[n].code =>
                    Loaded[n].language =
                        IF FencedBlocks(doc[1], 0)[b].info = ""
                        THEN language(criteria[1].skill_name)
                        ELSE FencedBlocks(doc[1], 0)[b].info


\* text e is "from <module> import <name>", <name> one identifier
IsImportEntry(e) ==
    LET m == Run(e, 5, ModuleChars)
        n == Run(e, 5 + m + 8, WordChars)
    IN  /\ startswith(e, "from ")
        /\ m > 0
        /\ HasAt(e, " import ", 5 + m)
        /\ n > 0
        /\ 5 + m + 8 + n = Len(e)

LineTwoNames == "from azure.core import Client, Credential"

\* C24 as stated: every entry of a rule's required_imports is
\* "from <module> import <name>" with <name> one identifier; a section-body line
\* "from m import a, b" gives the entries for a and for b, and text on the
\* lines after an import line is never part of an entry.
C24_EntriesAreSingleNames ==
    criteria # <<>> =>
        \A n \in 1..Len(criteria[1].rules) :
            /\ \A k \in 1..Len(criteria[1].rules[n].required_imports) :
                  IsImportEntry(criteria[1].rules[n].required_imports[k])
            /\ Contains(doc[1], LineTwoNames) =>
                  /\ InSeq("from azure.core import Client",
                           criteria[1].rules[n].required_imports)
                  /\ InSeq("from azure.core import Credential",
                           criteria[1].rules[n].required_imports)


\* the trimmed contents of the fenced blocks of the document
BlockCodes == {strip(FencedBlocks(doc[1], 0)[b].content) :
                  b \in 1..Len(FencedBlocks(doc[1], 0))}

\* C30 as stated: every pattern of the loader is the trimmed content of one
\* fenced block of the document and every fenced block gives one pattern; prose
\* between the closing fence of a block and the opening fence of the next is
\* never a pattern, also when a fence carries a tag such as c++.
C30_PatternsAreFencedBlocks ==
    criteria # <<>> =>
        /\ Len(Loaded) = Len(FencedBlocks(doc[1], 0))
        /\ \A n \in 1..Len(Loaded) : Loaded[n].code \in BlockCodes


\* the stage of evaluate a finding comes from, by its rule: 1 the import check,
\* 2 the flat scan of incorrect patterns, 3 the rules
Stage(f) ==
    IF f.rule = "imports" THEN 1
    ELSE IF startswith(f.rule, "pattern:") THEN 2
    ELSE 3

\* the place in criteria.rules of the rule a finding is named after, 0 if none
RuleIndex(f) ==
    IF \E n \in 1..Len(criteria[1].rules) : criteria[1].rules[n].name = f.rule
    THEN CHOOSE n \in 1..Len(criteria[1].rules) : criteria[1].rules[n].name = f.rule
    ELSE 0

\* C27: in every result of evaluate on code that passes the syntax check the
\* findings with rule "imports" come before those with rule pattern:<section>,
\* which come before the rule-scoped ones, and these follow the order of
\* criteria.rules; the score is set after the last stage, from all findings.
C27_FindingsByStage ==
    /\ \A k \in 1..Len(results) :
          PastSyntax(results[k]) =>
              /\ \A i, j \in 1..Len(results[k].findings) :
                    i < j =>
                        /\ Stage(results[k].findings[i]) <= Stage(results[k].findings[j])
                        /\ Stage(results[k].findings[i]) = 3 =>
                              /\ RuleIndex(results[k].findings[i]) >= 1
                              /\ RuleIndex(results[k].findings[i])
                                    <= RuleIndex(results[k].findings[j])
              /\ results[k].score = _calculate_score(results[k])
    /\ \A t \in 1..Len(calls) :
          calls[t].pc # "done" => calls[t].result.score = 0

\* one result with findings of all three stages, another with findings of both
\* rules
C27_Witness ==
    /\ \E k \in 1..Len(results) :
          {Stage(results[k].findings[i]) : i \in 1..Len(results[k].findings)} = {1, 2, 3}
    /\ \E k \in 1..Len(results) :
          {1, 2} \subseteq
              {RuleIndex(results[k].findings[i]) : i \in 1..Len(results[k].findings)}


(***************************************************************************)
(* Properties of the score (specification ScoreSpec).                      *)
(***************************************************************************)
\* C29 as stated: a result with an ERROR finding (passed is false) has a score
\* strictly below 100, whatever the number of correct patterns matched.
C29_FailingIsNotPerfect ==
    \A k \in 1..Len(results) :
        ~passed(results[k]) => results[k].score < ScoreBase


(***************************************************************************)
(* Properties of repeated load (specification ReloadSpec).                 *)
(***************************************************************************)
Classes(patterns) == [n \in 1..Len(patterns) |-> patterns[n].is_correct]

\* what C11 compares of one AcceptanceCriteria
Shape(crit) ==
    [names |-> [k \in 1..Len(crit.rules) |-> crit.rules[k].name],
     rule_correct |-> [k \in 1..Len(crit.rules) |-> Classes(crit.rules[k].correct_patterns)],
     rule_incorrect |-> [k \in 1..Len(crit.rules) |-> Classes(crit.rules[k].incorrect_patterns)],
     correct |-> Classes(crit.correct_patterns),
     incorrect |-> Classes(crit.incorrect_patterns)]

C12_LoadOutcome ==
    [][Load =>
        IF doc = <<>>
        THEN /\ raised' = "Acceptance criteria not found: .github/skills/" \o skill
                              \o "/references/acceptance-criteria.md"
             /\ criteria' = <<>>
             /\ loads' = <<>>
        ELSE /\ raised' = ""
             /\ Len(criteria') = 1
             /\ loads' = criteria'
             /\ doc[1] = "" =>
                   /\ criteria'[1].rules = <<>>
                   /\ criteria'[1].correct_patterns = <<>>
                   /\ criteria'[1].incorrect_patterns = <<>>]_vars

\* load has raised for the missing file
C12_Witness == doc = <<>> /\ raised # "" /\ criteria = <<>>


(***************************************************************************)
(* Properties of load (specification LoaderSpec).                          *)
(***************************************************************************)
\* the fenced blocks of the document, each with the title and body of the
\* chunk it lies in (chunk 1 is the text before the first "## " line)
DocBlocks ==
    LET chunks == split_sections(doc[1])
        ChunkBlocks(j) ==
            LET body == section_body(chunks[j])
                blocks == code_blocks(body)
            IN  {[chunk |-> j, index |-> i,
                  title |-> section_title(chunks[j]),
                  body |-> body,
                  code |-> blocks[i].code,
                  start |-> blocks[i].start] : i \in 1..Len(blocks)}
    IN  UNION {ChunkBlocks(j) : j \in {j \in 1..Len(chunks) : ~IsBlank(chunks[j])}}

\* the 200 characters of its section body that precede block b
Window(b) == Slice(b.body, IF b.start > 200 THEN b.start - 200 ELSE 0, b.start)

\* two blocks that give patterns of the same section and code
SamePattern(b, c) == b.title = c.title /\ strip(b.code) = strip(c.code)

\* how many of patterns come from the section and code of block b
CountPatterns(patterns, b) ==
    Cardinality({n \in 1..Len(patterns) :
                    /\ patterns[n].section = b.title
                    /\ patterns[n].code = strip(b.code)})

CrossBefore(b) == Contains(Window(b), CROSS)

\* C6 as stated: every block with the cross mark in the 200 characters before it
\* is classified incorrect, so the incorrect list has a pattern for each such
\* block, whatever the section's marker counts and earlier copies of its code.
C6_CrossMarkedIsIncorrect ==
    criteria # <<>> =>
        \A b \in DocBlocks :
            CrossBefore(b) =>
                CountPatterns(criteria[1].incorrect_patterns, b)
                    >= Cardinality({c \in DocBlocks : CrossBefore(c) /\ SamePattern(b, c)})

StatedIncorrectMarkers == {CROSS, "Incorrect", "DON'T:", "Bad", "Anti-pattern"}
StatedCorrectMarkers == {CHECK, "Correct", "DO:", "Good"}

RECURSIVE Occurrences(_, _)
Occurrences(text, markers) ==
    IF markers = {} THEN 0
    ELSE LET m == CHOOSE m \in markers : TRUE
         IN  count(text, m) + Occurrences(text, markers \ {m})

\* the class the stated order gives block b
StatedCorrect(b) ==
    IF \E m \in StatedIncorrectMarkers : Contains(Window(b), m) THEN FALSE
    ELSE IF \E m \in StatedCorrectMarkers : Contains(Window(b), m) THEN TRUE
    ELSE Occurrences(b.body, StatedCorrectMarkers)
            >= Occurrences(b.body, StatedIncorrectMarkers)

\* the first occurrence of the block's code in its section body is the block
FirstOccurrence(b) ==
    find(b.body, IF Len(b.code) > 50 THEN Slice(b.code, 0, 50) ELSE b.code) = b.start

\* C7 as stated: a block is classified by the first of: an incorrect marker
\* (any of the five) in its window, a correct marker (any of the four) in its
\* window, the section's marker counts, correct on a tie. Checked for the
\* blocks whose code occurs nowhere earlier in the section.
C7_StatedOrderAndMarkers ==
    criteria # <<>> =>
        \A b \in DocBlocks :
            FirstOccurrence(b) =>
                IF StatedCorrect(b)
                THEN CountPatterns(criteria[1].correct_patterns, b) >= 1
                ELSE CountPatterns(criteria[1].incorrect_patterns, b) >= 1

\* C8: every rule that load returns has a correct or an incorrect pattern, and
\* is named after a section that holds a block: a section without code
\* patterns gives no rule.
C8_RulesHavePatterns ==
    criteria # <<>> =>
        \A k \in 1..Len(criteria[1].rules) :
            /\ \/ criteria[1].rules[k].correct_patterns # <<>>
               \/ criteria[1].rules[k].incorrect_patterns # <<>>
            /\ \E b \in DocBlocks : b.title = criteria[1].rules[k].name

\* a document with a section without blocks, loaded into criteria with a rule
C8_Witness ==
    /\ criteria # <<>>
    /\ criteria[1].rules # <<>>
    /\ \E j \in 1..Len(split_sections(doc[1])) :
          /\ section_title(split_sections(doc[1])[j]) = "Notes"
          /\ code_blocks(section_body(split_sections(doc[1])[j])) = <<>>

NamesSkipped(title) ==
    \E word \in {"overview", "introduction", "quick reference"} :
        Contains(lower(title), word)

\* C9: no rule that load returns has a name whose lowercase form contains
\* "overview", "introduction" or "quick reference", and the flat lists still
\* have a pattern for every block of the sections so named.
C9_SkippedSectionsGiveNoRule ==
    criteria # <<>> =>
        /\ \A k \in 1..Len(criteria[1].rules) : ~NamesSkipped(criteria[1].rules[k].name)
        /\ \A b \in DocBlocks :
              NamesSkipped(b.title) =>
                  CountPatterns(criteria[1].correct_patterns
                                    \o criteria[1].incorrect_patterns, b)
                      >= Cardinality({c \in DocBlocks : SamePattern(b, c)})

\* a loaded document whose section "API Overview" holds a block
C9_Witness ==
    /\ criteria # <<>>
    /\ \E b \in DocBlocks :
          /\ b.title = "API Overview"
          /\ CountPatterns(criteria[1].correct_patterns
                               \o criteria[1].incorrect_patterns, b) >= 1

\* pattern p lies in a section that is not skipped
OfRuleSections(p) == ~NamesSkipped(p.section)

\* C26: every pattern held by a rule is in the flat list of its kind, and the
\* flat lists hold, in document order, the patterns of the rules and besides
\* them only patterns of blocks of the sections skipped as overview,
\* introduction or quick reference.
C26_BothViewsAgree ==
    criteria # <<>> =>
        LET rules == criteria[1].rules
            flat_correct == criteria[1].correct_patterns
            flat_incorrect == criteria[1].incorrect_patterns
        IN  /\ \A n \in 1..Len(rules) :
                  /\ \A k \in 1..Len(rules[n].correct_patterns) :
                        /\ rules[n].correct_patterns[k].is_correct
                        /\ rules[n].correct_patterns[k].section = rules[n].name
                        /\ InSeq(rules[n].correct_patterns[k], flat_correct)
                  /\ \A k \in 1..Len(rules[n].incorrect_patterns) :
                        /\ ~rules[n].incorrect_patterns[k].is_correct
                        /\ rules[n].incorrect_patterns[k].section = rules[n].name
                        /\ InSeq(rules[n].incorrect_patterns[k], flat_incorrect)
            /\ SelectSeq(flat_correct, OfRuleSections)
                  = concat_all([n \in 1..Len(rules) |-> rules[n].correct_patterns])
            /\ SelectSeq(flat_incorrect, OfRuleSections)
                  = concat_all([n \in 1..Len(rules) |-> rules[n].incorrect_patterns])
            /\ \A n \in 1..Len(flat_correct \o flat_incorrect) :
                  LET q == (flat_correct \o flat_incorrect)[n]
                  IN  NamesSkipped(q.section) =>
                          \E b \in DocBlocks : b.title = q.section /\ strip(b.code) = q.code

\* a document with a rule and with a skipped section that has a block: the flat
\* lists hold patterns of both, the rules of the first only
C26_Witness ==
    /\ criteria # <<>>
    /\ criteria[1].rules # <<>>
    /\ \E n \in 1..Len(criteria[1].correct_patterns \o criteria[1].incorrect_patterns) :
          NamesSkipped((criteria[1].correct_patterns
                        \o criteria[1].incorrect_patterns)[n].section)
    /\ \E n \in 1..Len(criteria[1].correct_patterns \o criteria[1].incorrect_patterns) :
          ~NamesSkipped((criteria[1].correct_patterns
                         \o criteria[1].incorrect_patterns)[n].section)


\* C10 as stated: the text before the first "## " line is discarded: the flat
\* lists hold one pattern for each block of the chunks after a "## " line and
\* no more, and every rule is named after one of those chunks.
C10_PreambleDiscarded ==
    criteria # <<>> =>
        /\ Len(criteria[1].correct_patterns) + Len(criteria[1].incorrect_patterns)
              = Cardinality({b \in DocBlocks : b.chunk >= 2})
        /\ \A k \in 1..Len(criteria[1].rules) :
              \E j \in 2..Len(split_sections(doc[1])) :
                  criteria[1].rules[k].name = section_title(split_sections(doc[1])[j])

====
